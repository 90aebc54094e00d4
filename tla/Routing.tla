------------------------------ MODULE Routing ------------------------------
(***************************************************************************)
(* CManager::RunActors and SetChannels build the actors and channels of    *)
(* the configuration, one entry after the other, while the io threads      *)
(* already run; CChannel::InputMessages carries every message an actor     *)
(* reads to the actors at the other end of its channels.                   *)
(*                                                                         *)
(* A message is a shared_ptr: an actor that keeps it keeps the very bytes  *)
(* that the next destination may change.                                   *)
(***************************************************************************)
EXTENDS Naturals, Sequences, SequencesExt

CONSTANTS
  ActorEntries,   \* proxy.actors: [id, kind] records in order
  ChannelEntries, \* proxy.channels: [id, src, dst] records in order
  Threads,        \* the threads in io_service::run
  MaxMessages     \* bound: messages read

\* What an entry makes: a kind of actor, nothing because its constructor throws
\* ("broken"), or whatever the name that is no EActorType is taken for ("unknown").
Kinds == {"tcp", "uart", "adaptor"}

ASSUME RoutingAssumption ==
  /\ ActorEntries \in Seq(Range(ActorEntries)) /\ ChannelEntries \in Seq(Range(ChannelEntries))
  /\ \A i \in DOMAIN ActorEntries : ActorEntries[i].kind \in Kinds \cup {"broken", "unknown"}
  /\ "none" \notin Threads /\ MaxMessages \in Nat

VARIABLES
  stage,     \* what the main thread does: "actors", "channels", "run", "cleared"
  entry,     \* the entry it is at
  kind,      \* m_actors: id -> kind
  wired,     \* the connected channels in the order of connection: m_channels
  owner,     \* of each wired channel's m_mtx: a thread, or "none"
  emission,  \* of each io thread: the message it emits, and the positions in wired of the
             \* slots it has not called yet
  content,   \* of each message: "raw" as read, "lf" after \r\n became \n
  queue,     \* m_msgQueue of the client of each tcp actor
  out,       \* its m_outBuffer, a copy; <<>> when m_idleWrite
  given,     \* what each actor passed to the outside: {message, content}
  freed,     \* actors whose object is destroyed
  carried,   \* history: <<message, channel>> that reached a destination
  born,      \* history: of each message, its source and whether all channels were wired
  outcome    \* history: how the emission of a message ended: "done" or "thrown"

wiring == <<stage, entry, kind, wired>>
outside == <<queue, out, given>>
routingVars == <<wiring, owner, emission, content, outside, freed, carried, born, outcome>>

Ids == {ActorEntries[i].id : i \in DOMAIN ActorEntries}
ChannelIds == {ChannelEntries[i].id : i \in DOMAIN ChannelEntries}
Idle == [at |-> "idle", msg |-> 0, left |-> {}]
Messages == DOMAIN content
Extend(f, x, v) == [y \in DOMAIN f \cup {x} |-> IF y = x THEN v ELSE f[y]]

\* The loops of RunActors and SetChannels end at once when there is nothing to build.
AfterActors == IF ChannelEntries = <<>> THEN "run" ELSE "channels"

RoutingInit ==
  /\ stage = (IF ActorEntries = <<>> THEN AfterActors ELSE "actors") /\ entry = 1
  /\ kind = <<>> /\ wired = <<>>
  /\ owner = [c \in ChannelIds |-> "none"]
  /\ emission = [t \in Threads |-> Idle]
  /\ content = <<>>
  /\ queue = [a \in Ids |-> <<>>] /\ out = [a \in Ids |-> <<>>] /\ given = [a \in Ids |-> {}]
  /\ freed = {} /\ carried = {} /\ born = <<>> /\ outcome = <<>>
-----------------------------------------------------------------------------
(* The main thread: RunActors, SetChannels, the clearing in reset *)

\* The actor an entry names; ConvertString2Id leaves its result unset when no
\* enumerator has that name, and the switch of MakeActor takes what it finds.
Makes(e) == CASE e.kind = "unknown" -> Kinds \cup {"none"}
              [] e.kind = "broken" -> {"none"}
              [] OTHER -> {e.kind}

NextActor(made) ==
  IF entry < Len(ActorEntries) THEN stage' = stage /\ entry' = entry + 1
  ELSE stage' = AfterActors /\ entry' = 1

RunActor ==
  /\ stage = "actors"
  /\ LET e == ActorEntries[entry] IN
     \E made \in Makes(e) :
       /\ kind' = IF made = "none" \/ e.id \in DOMAIN kind THEN kind ELSE Extend(kind, e.id, made)
       /\ NextActor(made)
  /\ UNCHANGED <<wired, owner, emission, content, outside, freed, carried, born, outcome>>

\* The constructor of CChannel throws when FindActor finds no source or destination.
HasEnds(c) == c.src \in DOMAIN kind /\ c.dst \in DOMAIN kind

SetChannel ==
  /\ stage = "channels"
  /\ LET c == ChannelEntries[entry] IN
       wired' = IF HasEnds(c) /\ \A i \in DOMAIN wired : wired[i].id # c.id
                THEN Append(wired, c) ELSE wired
  /\ IF entry < Len(ChannelEntries) THEN stage' = stage /\ entry' = entry + 1
     ELSE stage' = "run" /\ entry' = 1
  /\ UNCHANGED <<kind, owner, emission, content, outside, freed, carried, born, outcome>>

\* The slots of a signal are called in the order in which they were connected.
FirstOf(left) == CHOOSE i \in left : \A j \in left : i <= j
Slot(t) == wired[FirstOf(emission[t].left)]

\* Faulty variant: InputMessages uses the destination without a reference of its own.
HoldersNone(a) == {}

\* dst in InputMessages keeps the destination alive.
Holders(a) == {t \in Threads : emission[t].at = "handler" /\ Slot(t).dst = a}

\* reset stops the actors, which disconnects their signals, and clears m_actors.
ClearActors ==
  /\ stage = "run" /\ stage' = "cleared"
  /\ kind' = <<>>
  /\ freed' = {a \in DOMAIN kind : Holders(a) = {}}
  /\ UNCHANGED <<entry, wired, owner, emission, content, outside, carried, born, outcome>>
-----------------------------------------------------------------------------
(* The io threads *)

From(a) == {i \in DOMAIN wired : wired[i].src = a}

Emits(t, a) == emission[t].at \in {"slots", "handler"} /\ born[emission[t].msg].src = a

\* An actor that is read from starts to emit: the slots are those connected now. A
\* terminal reads on only when it has emitted, a tcp client before.
ReadMessage(t, a) ==
  /\ emission[t] = Idle /\ a \in DOMAIN kind /\ kind[a] \in {"tcp", "uart"}
  /\ kind[a] = "uart" => \A u \in Threads : ~Emits(u, a)
  /\ Len(content) < MaxMessages
  /\ content' = Append(content, "raw")
  /\ born' = Append(born, [src |-> a, all |-> stage = "run"])
  /\ outcome' = Append(outcome, "no")
  /\ emission' = [emission EXCEPT ![t] = [at |-> "slots", msg |-> Len(content) + 1, left |-> From(a)]]
  /\ UNCHANGED <<wiring, owner, outside, freed, carried>>

\* Faulty variant: the message goes to one channel only.
OthersNone(left) == {}

Others(left) == left \ {FirstOf(left)}

EmissionEnds(t) ==
  /\ emission[t].at = "slots" /\ emission[t].left = {}
  /\ outcome' = [outcome EXCEPT ![emission[t].msg] = "done"]
  /\ emission' = [emission EXCEPT ![t] = Idle]
  /\ UNCHANGED <<wiring, owner, content, outside, freed, carried, born>>

\* reset has disconnected the slots that were not called yet.
SlotSkipped(t) ==
  /\ emission[t].at = "slots" /\ emission[t].left # {} /\ stage = "cleared"
  /\ emission' = [emission EXCEPT ![t].left = Others(@)]
  /\ UNCHANGED <<wiring, owner, content, outside, freed, carried, born, outcome>>

\* InputMessages: the lock, and the destination if it is still there.
EnterChannel(t) ==
  /\ emission[t].at = "slots" /\ emission[t].left # {}
  /\ LET c == Slot(t) IN
     /\ owner[c.id] = "none"
     /\ IF c.dst \in DOMAIN kind
        THEN /\ owner' = [owner EXCEPT ![c.id] = t]
             /\ emission' = [emission EXCEPT ![t].at = "handler"]
        ELSE /\ emission' = [emission EXCEPT ![t].left = Others(@)]
             /\ UNCHANGED owner
  /\ UNCHANGED <<wiring, content, outside, freed, carried, born, outcome>>

\* SendMessage of the client of a tcp actor.
SendMessage(a, m) ==
  /\ IF out[a] = <<>> THEN /\ out' = [out EXCEPT ![a] = <<m, content[m]>>]
                           /\ UNCHANGED queue
     ELSE /\ queue' = [queue EXCEPT ![a] = Append(@, m)]
          /\ UNCHANGED out
  /\ UNCHANGED <<content, given>>

\* DoWrite of a terminal replaces \r\n in the message itself.
DoWrite(a, m) ==
  /\ content' = [content EXCEPT ![m] = "lf"]
  /\ given' = [given EXCEPT ![a] = @ \cup {<<m, "lf">>}]
  /\ UNCHANGED <<queue, out>>

\* DoLog of a logger adaptor works on a copy of the bytes.
DoLog(a, m) ==
  /\ given' = [given EXCEPT ![a] = @ \cup {<<m, content[m]>>}]
  /\ UNCHANGED <<content, queue, out>>

\* The last reference destroys the actor.
Released(t, a) == IF a \notin DOMAIN kind /\ Holders(a) \subseteq {t} THEN freed \cup {a} ELSE freed

\* Faulty variant: the lock is not given back when the handler throws.
UnlockedAfter(c, thrown) == IF thrown THEN owner ELSE [owner EXCEPT ![c.id] = "none"]

\* unique_lock: also when an exception passes.
Unlocked(c, thrown) == [owner EXCEPT ![c.id] = "none"]

\* The destination's slot returns.
SlotReturns(t) ==
  /\ emission[t].at = "handler"
  /\ LET c == Slot(t)
         m == emission[t].msg
         k == IF c.dst \in DOMAIN kind THEN kind[c.dst] ELSE "stopped" IN
     /\ CASE k = "tcp" -> SendMessage(c.dst, m)
          [] k = "uart" -> DoWrite(c.dst, m)
          [] k = "adaptor" -> DoLog(c.dst, m)
          [] OTHER -> UNCHANGED <<content, outside>>
     /\ owner' = Unlocked(c, FALSE)
     /\ carried' = carried \cup {<<m, c>>}
     /\ freed' = Released(t, c.dst)
     /\ emission' = [emission EXCEPT ![t] = [at |-> "slots", msg |-> m, left |-> Others(emission[t].left)]]
  /\ UNCHANGED <<wiring, born, outcome>>

\* An adaptor that cannot parse a message throws through signal and channel; the
\* thread leaves io_service::run (Manager!HandlerThrows).
SlotThrows(t) ==
  /\ emission[t].at = "handler"
  /\ LET c == Slot(t) IN
     /\ c.dst \in DOMAIN kind /\ kind[c.dst] = "adaptor"
     /\ owner' = Unlocked(c, TRUE)
  /\ outcome' = [outcome EXCEPT ![emission[t].msg] = "thrown"]
  /\ emission' = [emission EXCEPT ![t] = [Idle EXCEPT !.at = "left"]]
  /\ UNCHANGED <<wiring, content, outside, freed, carried, born>>

\* What a copy of message m reads while a terminal may be changing it.
Copied(m) ==
  IF \E t \in Threads : /\ emission[t].at = "handler" /\ emission[t].msg = m
                        /\ Slot(t).dst \in DOMAIN kind /\ kind[Slot(t).dst] = "uart"
  THEN {"raw", "lf", "torn"} ELSE {content[m]}

\* WriteHandler: the buffer is out, the next of the queue (its back, see TcpServer)
\* is copied while its front is dropped.
WriteDone(a) ==
  /\ a \in DOMAIN kind /\ out[a] # <<>>
  /\ given' = [given EXCEPT ![a] = @ \cup {out[a]}]
  /\ IF queue[a] = <<>> THEN out' = [out EXCEPT ![a] = <<>>] /\ UNCHANGED queue
     ELSE /\ \E v \in Copied(Last(queue[a])) : out' = [out EXCEPT ![a] = <<Last(queue[a]), v>>]
          /\ queue' = [queue EXCEPT ![a] = Tail(@)]
  /\ UNCHANGED <<wiring, owner, emission, content, freed, carried, born, outcome>>

ThreadStep(t) == EmissionEnds(t) \/ SlotSkipped(t) \/ EnterChannel(t) \/ SlotReturns(t) \/ SlotThrows(t)

RoutingNext ==
  \/ RunActor \/ SetChannel \/ ClearActors
  \/ \E t \in Threads : \/ \E a \in Ids : ReadMessage(t, a)
                        \/ EmissionEnds(t) \/ SlotSkipped(t) \/ EnterChannel(t)
                        \/ SlotReturns(t) \/ SlotThrows(t)
  \/ \E a \in Ids : WriteDone(a)

RoutingSpec == RoutingInit /\ [][RoutingNext]_routingVars

\* The main thread builds, and a thread that emits goes on; mutexes are not fair, but
\* every owner leaves.
FairRoutingSpec ==
  RoutingSpec /\ WF_routingVars(RunActor \/ SetChannel) /\ \A t \in Threads : SF_routingVars(ThreadStep(t))
-----------------------------------------------------------------------------
RoutingTypeOK ==
  /\ stage \in {"actors", "channels", "run", "cleared"} /\ entry \in Nat
  /\ DOMAIN kind \subseteq Ids /\ \A a \in DOMAIN kind : kind[a] \in Kinds
  /\ Len(wired) <= Len(ChannelEntries) /\ \A i \in DOMAIN wired : wired[i].id \in ChannelIds
  /\ owner \in [ChannelIds -> Threads \cup {"none"}]
  /\ \A t \in Threads : /\ emission[t].at \in {"idle", "slots", "handler", "left"}
                        /\ emission[t].at = "handler" => owner[Slot(t).id] = t
  /\ \A m \in Messages : content[m] \in {"raw", "lf"}
  /\ freed \subseteq Ids

\* The actors and channels that run are those the configuration describes: the first
\* good entry of an id counts, an entry that fails takes nothing with it.
BuiltAsConfigured ==
  stage = "run" =>
    /\ \A e \in {ActorEntries[i] : i \in DOMAIN ActorEntries} : e.kind \in Kinds => e.id \in DOMAIN kind
    /\ {wired[i].id : i \in DOMAIN wired} =
         {c.id : c \in {d \in {ChannelEntries[i] : i \in DOMAIN ChannelEntries} :
                          d.src \in DOMAIN kind /\ d.dst \in DOMAIN kind}}

\* A message whose emission began with all channels wired and was not interrupted has
\* passed every channel of its source, and no other.
PassedEveryChannel ==
  \A m \in Messages :
    (outcome[m] = "done" /\ born[m].all /\ stage = "run") =>
      {x \in carried : x[1] = m} = {<<m, wired[i]>> : i \in From(born[m].src)}

\* The slot of a destination runs on an object that still exists, also while reset
\* clears the actors.
HandlerAlive ==
  \A t \in Threads : emission[t].at = "handler" => Slot(t).dst \notin freed

\* What leaves through a tcp actor or a log differs from what was read only when the
\* same source also feeds a terminal.
AsReadUnlessTerminal ==
  \A a \in DOMAIN kind : \A x \in given[a] :
    (kind[a] # "uart" /\ x[2] # "raw") =>
      \E i \in DOMAIN wired : /\ wired[i].src = born[x[1]].src
                              /\ wired[i].dst \in DOMAIN kind /\ kind[wired[i].dst] = "uart"

\* Every emission ends: no channel stays locked.
EmissionsEnd == \A t \in Threads : emission[t].at = "slots" ~> emission[t].at \in {"idle", "left"}

\* What is built is what is configured, with one owner for each channel in use, and what
\* a slot works on is still there.
WiringInvariant == RoutingTypeOK /\ BuiltAsConfigured /\ HandlerAlive

\* A message reaches each destination of its source and no other, as it was read
\* unless a terminal had it too.
PassedAsRead == PassedEveryChannel /\ AsReadUnlessTerminal
=============================================================================
