----------------------------- MODULE PureChecks -----------------------------
(***************************************************************************)
(* The parts of the repository that compute an answer and keep no state,   *)
(* checked side by side: the texts of the web server, the rules on imports *)
(* and the rule on role files.  A behaviour is of one of the three, and    *)
(* the other two are idle in it.                                           *)
(***************************************************************************)
EXTENDS PageChecks, ImportRules, RoleFileChecks

NothingMade == made = [tag |-> "Nothing"] /\ text = Unwritten /\ found = Unread

InitPure ==
    \/ InitChecks /\ chain = NoChain /\ file = NoFile
    \/ NothingMade /\ InitImports /\ file = NoFile
    \/ NothingMade /\ chain = NoChain /\ InitFiles

NextPure ==
    \/ NextChecks /\ UNCHANGED <<chain, file>>
    \/ Import /\ UNCHANGED <<made, text, found, file>>
    \/ Write /\ UNCHANGED <<made, text, found, chain>>

SpecPure == InitPure /\ [][NextPure]_<<made, text, found, chain, file>>
=============================================================================
