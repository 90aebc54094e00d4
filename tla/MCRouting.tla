----------------------------- MODULE MCRouting -----------------------------
(***************************************************************************)
(* An instance of Routing: a telnet server, a terminal and the log adaptor *)
(* of the terminal wired as in proxy.xml, with entries that are wrong.     *)
(***************************************************************************)
EXTENDS Routing, TLC

CONSTANTS t1, t2

Actor(i, k) == [id |-> i, kind |-> k]
Channel(i, s, d) == [id |-> i, src |-> s, dst |-> d]

\* The telnet server is listed twice, one entry cannot be made, one has a name that
\* is no EActorType.
MCActors == <<Actor("telnet", "tcp"), Actor("bad", "broken"), Actor("uart", "uart"),
              Actor("telnet", "uart"), Actor("log", "adaptor"), Actor("other", "unknown")>>

\* One channel leads to the actor that could not be made, one id is used twice. What
\* the telnet server reads goes to the other actor and to the terminal.
MCChannels == <<Channel("c1", "uart", "telnet"), Channel("c2", "uart", "bad"),
                Channel("c3", "uart", "log"), Channel("c4", "telnet", "other"),
                Channel("c5", "telnet", "uart"), Channel("c1", "telnet", "log")>>
=============================================================================
