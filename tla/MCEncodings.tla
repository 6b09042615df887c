----------------------------- MODULE MCEncodings -----------------------------
(***************************************************************************)
(* Constants of the TLC runs of Encodings.                                 *)
(***************************************************************************)
EXTENDS Encodings

Nobody == [e \in Ends |-> {}]
OneBatch == [e \in Ends |-> 1]
Accepts == [e \in Ends |-> "ACCEPTED"]

Config(encoding_, declines, sends_lang, toggles) ==
  [encoding |-> encoding_, declines |-> declines, sends_lang |-> sends_lang, toggles |-> toggles]

\* The client's own encoding is offered, or only a weak default, or missing;
\* one that does without CHARSET tells its own by LANG; one has no LANG.
SomeConfigurations ==
  {Config("utf8", {}, TRUE, 1), Config("latin1", {}, TRUE, 1), Config("", {}, TRUE, 0),
   Config("latin1", {"TTYPE"}, FALSE, 0), Config("cp1251", {"CHARSET"}, TRUE, 0)}

\* A name nobody knows comes first.
SomeOffers == <<"KLINGON", "UTF-8", "CP1252">>
Codecs == [n \in {"UTF-8", "utf8", "CP1252", "cp1252", "latin1", "cp1251"} |->
             CASE n = "UTF-8" -> "utf8" [] n = "CP1252" -> "cp1252" [] OTHER -> n]
\* A client that knows none of the names it is offered as its own.
Rejecting == {Config("cp1251", {}, TRUE, 0)}
=============================================================================
