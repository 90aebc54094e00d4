------------------------------ MODULE MCLogger ------------------------------
(***************************************************************************)
(* Instances of Logger: a console for the internal channel and a file sink *)
(* for channel 1, as in proxy.xml; or one file sink for the internal       *)
(* channel.                                                                *)
(***************************************************************************)
EXTENDS Logger, TLC

CONSTANTS client, local, console, store, diary, m1, m2

MCThread == {client, local}
MCSink == {console, store, diary}
MCChannel == (console :> 0) @@ (store :> 1) @@ (diary :> 0)
MCConsoles == {console}
MCOnDemand == {store}

\* One client of the log port that names its file, one multiplexer; or a
\* thread that logs on the internal channel, as the logger itself does, and two
\* multiplexers; or a client that leaves while another comes and logs; or records
\* that are refused.
MCCases ==
  {[sinks |-> <<console, store>>,
    script |-> (client :> <<Opens(1, "A")>>) @@ (local :> <<>>),
    muxers |-> 1, stops |-> TRUE],
   [sinks |-> <<console, store>>,
    script |-> (client :> <<>>) @@ (local :> <<Says(0)>>),
    muxers |-> 2, stops |-> TRUE],
   [sinks |-> <<console, store>>,
    script |-> (client :> <<Closes(1)>>) @@ (local :> <<Opens(1, "B"), Says(1)>>),
    muxers |-> 1, stops |-> FALSE],
   [sinks |-> <<diary>>,
    script |-> (client :> <<Closes(0), Says(Unknown)>>) @@ (local :> <<>>),
    muxers |-> 1, stops |-> FALSE]}
=============================================================================
