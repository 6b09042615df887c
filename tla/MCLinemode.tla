----------------------------- MODULE MCLinemode -----------------------------
(***************************************************************************)
(* Constants of the TLC runs of Linemode.  In every pair of tables one     *)
(* function has any level and any character that default_slc_tab gives a   *)
(* function, and MCL is a function that, like most, it does not list.      *)
(***************************************************************************)
EXTENDS Linemode

TwoFuncs == <<"IP", "MCL">>
Entries ==
  {SLC(l, v) : l \in {"CANTCHANGE", "VARIABLE", "DEFAULT"}, v \in {"x", "y"}}
    \cup {SLC("DEFAULT", "null"), SLC_nosupport}
Tables == [{"IP"} -> Entries]
\* Each end may suggest any mode with send_linemode; the server's shell may
\* take the option back and ask for it again.
Sends == {<<e, "send", b>> : e \in Ends, b \in SUBSET Bits}
SendsAndToggle == Sends \cup {<<"server", "toggle", {}>>}
\* These calls meet the hypothesis under which ModesAgree is proved.
ASSUME ProvedCalls == Calls \subseteq SendsAndToggle => ShellsCall
\* The server's shell changes a bit of the mode in force.
Changes == {<<"server", "change", b>> : b \in SUBSET Bits}
\* Some tables list MCL too, as a function to be negotiated.
OtherTables == Tables \cup [{"IP", "MCL"} -> {SLC("DEFAULT", "null")}]
=============================================================================
