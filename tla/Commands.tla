------------------------------ MODULE Commands ------------------------------
(***************************************************************************)
(* The way of a command: CConsoleActor reads lines from its descriptor and *)
(* a TCP client sends chunks; CManagerAdaptor collects what its channels   *)
(* bring and obeys the first line of it.  ConsoleSession puts these        *)
(* operations together with the life of the manager that runs them.        *)
(***************************************************************************)
EXTENDS Naturals, Sequences, FiniteSets, FiniteSetsExt

CONSTANTS Threads,  \* the threads in io_service::run
          MaxLines, \* bound: lines typed
          Chunks,   \* what a TCP client may send, sequences of tokens
          MaxChunks \* bound: chunks sent

\* A token is the word of a command, other text or the end of a line; "long" stands
\* for a text that leaves no room for its line end in m_inBuffer (MAX_BODY_LENGTH).
LF == "lf"
Words == {"quit", "text"}
Tokens == Words \cup {LF}

VARIABLES
  typed,    \* the lines typed so far: a word or "long" each
  ended,    \* the descriptor is at its end
  taken,    \* how many lines were taken out of the console's m_inBuffer
  reading,  \* async_read_until is outstanding
  open,     \* m_in is open
  thread,   \* what each thread has in hand, and how far it is with it
  inBuffer, \* m_inBuffer of the manager adaptor
  stopFlag, \* CManager::m_stopFlag
  chunks,   \* history: chunks sent
  extra,    \* history: line ends beyond the first of a message, counted until raced
  raced,    \* history: two threads were in the unlocked part of DoCommand at once
  mixed,    \* history: a line of the console came behind an unfinished one of a client
  received, \* history: the text appended to inBuffer ...
  gone      \* ... and the text of the lines it took out, both kept until raced

console == <<typed, ended, taken, reading, open>>
adaptor == <<inBuffer, stopFlag, extra, raced, mixed, received, gone>>
vars == <<console, thread, chunks, adaptor>>

\* A thread with a message of a source, or a line of it, in hand.
Has(at, src, msg, line) == [at |-> at, src |-> src, msg |-> msg, line |-> line]

Idle == Has("idle", "none", <<>>, <<>>)

Init ==
  /\ typed = <<>> /\ ended = FALSE /\ taken = 0 /\ reading = TRUE /\ open = TRUE
  /\ thread = [t \in Threads |-> Idle]
  /\ inBuffer = <<>> /\ stopFlag = FALSE /\ chunks = 0 /\ extra = 0
  /\ raced = FALSE /\ mixed = FALSE /\ received = <<>> /\ gone = <<>>
-----------------------------------------------------------------------------
(* The console *)

Type ==
  /\ ~ended /\ Len(typed) < MaxLines
  /\ \E w \in Words \cup {"long"} : typed' = Append(typed, w)
  /\ UNCHANGED <<ended, taken, reading, open, thread, chunks, adaptor>>

EndOfInput ==
  /\ ~ended /\ ended' = TRUE
  /\ UNCHANGED <<typed, taken, reading, open, thread, chunks, adaptor>>

\* async_read_until has found the end of the next line.
LineThere == taken < Len(typed) /\ typed[taken + 1] # "long"

\* ReadHandler takes a line out of the buffer.
ReadHandler(t) ==
  /\ thread[t] = Idle /\ reading /\ open /\ LineThere
  /\ thread' = [thread EXCEPT ![t] = Has("start", "console", <<typed[taken + 1], LF>>, <<>>)]
  /\ taken' = taken + 1 /\ reading' = FALSE
  /\ UNCHANGED <<typed, ended, open, chunks, adaptor>>

\* Faulty variant: the handler emits without reading on.
ReadsNoMore == UNCHANGED reading

ReadsAgain == reading' = TRUE

\* Start, before the line is emitted: another thread may run the next ReadHandler.
Start(t) ==
  /\ thread[t].at = "start"
  /\ thread' = [thread EXCEPT ![t].at = "emit"]
  /\ ReadsAgain
  /\ UNCHANGED <<typed, ended, taken, open, chunks, adaptor>>

\* ReadHandler with error::not_found: the buffer is full without a line end. Nothing
\* is taken out of it and the same read is started again.
LineTooLong(t) ==
  /\ thread[t] = Idle /\ reading /\ open
  /\ taken < Len(typed) /\ typed[taken + 1] = "long"
  /\ UNCHANGED vars

\* ReadHandler with another error: Stop closes the descriptor.
ReadFails(t) ==
  /\ thread[t] = Idle /\ reading /\ open /\ ended /\ taken = Len(typed)
  /\ reading' = FALSE /\ open' = FALSE
  /\ UNCHANGED <<typed, ended, taken, thread, chunks, adaptor>>
-----------------------------------------------------------------------------
(* Another source, whose messages come by another channel *)

ChunkArrives(t) ==
  /\ thread[t] = Idle /\ chunks < MaxChunks
  /\ \E c \in Chunks : thread' = [thread EXCEPT ![t] = Has("emit", "client", c, <<>>)]
  /\ chunks' = chunks + 1
  /\ UNCHANGED <<console, adaptor>>
-----------------------------------------------------------------------------
(* The manager adaptor.  The channel of each source is locked while its      *)
(* message is in DoCommand; nothing locks m_inBuffer against the other one.  *)

LineEnds(s) == {i \in DOMAIN s : s[i] = LF}

\* The first line with its end, and what is behind it.
FirstLine(s) == SubSeq(s, 1, Min(LineEnds(s)))

\* Faulty variant: all of the text goes with the first line.
RestIsDropped(s) == IF LineEnds(s) = {} THEN s ELSE <<>>

Rest(s) == IF LineEnds(s) = {} THEN s ELSE SubSeq(s, Min(LineEnds(s)) + 1, Len(s))

\* A text whose last line is still to be ended.
Unfinished(s) == s # <<>> /\ s[Len(s)] # LF

\* CChannel::InputMessages has locked its channel and calls DoCommand, which begins to work
\* on m_inBuffer. When another thread is at work on it too, what becomes of the text is
\* undefined, and the histories end.
EnterDoCommand(t) ==
  /\ thread[t].at = "emit"
  /\ \A u \in Threads : thread[u].at \in {"buffer", "obey"} => thread[u].src # thread[t].src
  /\ thread' = [thread EXCEPT ![t].at = "buffer"]
  /\ raced' = (raced \/ \E u \in Threads : thread[u].at = "buffer")
  /\ mixed' = (mixed \/ (thread[t].src = "console" /\ Unfinished(inBuffer)))
  /\ IF raced' THEN inBuffer' = <<>> /\ received' = <<>> /\ gone' = <<>>
     ELSE UNCHANGED <<inBuffer, received, gone>>
  /\ UNCHANGED <<console, chunks, stopFlag, extra>>

\* The thread has the line it will obey, or there is none for it.
Holds(t, line) == thread' = [thread EXCEPT ![t] = Has("obey", thread[t].src, <<>>, line)]
HoldsNone(t) == thread' = [thread EXCEPT ![t] = Idle]

\* push_back of the whole message, find, substr and erase.
TakeLine(t) ==
  /\ thread[t].at = "buffer" /\ ~raced
  /\ LET all == inBuffer \o thread[t].msg IN
     /\ IF LineEnds(all) = {} THEN HoldsNone(t) /\ UNCHANGED gone
        ELSE Holds(t, FirstLine(all)) /\ gone' = gone \o FirstLine(all)
     /\ inBuffer' = Rest(all)
  /\ received' = received \o thread[t].msg
  /\ extra' = extra + Max({Cardinality(LineEnds(thread[t].msg)), 1}) - 1
  /\ UNCHANGED <<console, chunks, stopFlag, raced, mixed>>

\* The same on a text that two threads have changed at once: it may hold no line, or one
\* that was torn from several, which may be any. (It may also be the end of the process,
\* and nothing follows.)
TakeTornLine(t) ==
  /\ thread[t].at = "buffer" /\ raced
  /\ HoldsNone(t) \/ \E w \in Words : Holds(t, <<w, LF>>)
  /\ UNCHANGED <<console, chunks, adaptor>>

\* QUIT and EXIT, of any case and with blanks around.
IsQuit(line) == line = <<"quit", LF>>

\* The line is obeyed: one for each message, the rest waits for the next.
ObeyLine(t) ==
  /\ thread[t].at = "obey"
  /\ stopFlag' = (stopFlag \/ IsQuit(thread[t].line))
  /\ thread' = [thread EXCEPT ![t] = Idle]
  /\ UNCHANGED <<console, chunks, inBuffer, extra, raced, mixed, received, gone>>

AdaptorStep(t) == EnterDoCommand(t) \/ TakeLine(t) \/ TakeTornLine(t)
-----------------------------------------------------------------------------
TypeOK ==
  /\ Len(typed) <= MaxLines /\ taken \in 0 .. Len(typed)
  /\ {ended, reading, open, stopFlag, raced, mixed} \subseteq BOOLEAN
  /\ \A t \in Threads : /\ thread[t].at \in {"idle", "start", "emit", "buffer", "obey"}
                        /\ thread[t].src \in {"none", "console", "client"}
                        /\ thread[t].msg \in Seq(Tokens) /\ thread[t].line \in Seq(Tokens)
  /\ {inBuffer, received, gone} \subseteq Seq(Tokens) /\ chunks \in 0 .. MaxChunks /\ extra \in Nat
  /\ reading => \A t \in Threads : thread[t].at # "start"
=============================================================================
