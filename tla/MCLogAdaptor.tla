---------------------------- MODULE MCLogAdaptor ----------------------------
(***************************************************************************)
(* An instance of LogAdaptor: an adaptor with a filtered channel, a plain  *)
(* one and one whose filter is misspelt, as in proxy.xml, and every chunk  *)
(* of a few bytes.                                                         *)
(***************************************************************************)
EXTENDS LogAdaptor, TLC

MCFilterName == "filtered" :> "RAGEX_ERASE" @@ "original" :> "" @@ "misspelt" :> "REGEX_ERASE"
\* With a uint16_t of 60, the last is too long for a file name, and cut for a message.
MCTexts == {<<Esc, "text">>, <<"text">>, [i \in 1 .. 10 |-> "text"]}
MCOwnTag == <<"text", "text", "text", "text">>
MCClientTag == <<"text", "text", "text">>
=============================================================================
