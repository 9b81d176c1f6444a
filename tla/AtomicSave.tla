----------------------------- MODULE AtomicSave -----------------------------
(***************************************************************************)
(* A file that is saved in one step, by the rule the other modules use: a  *)
(* save replaces what its caller has loaded, or was told to replace        *)
(* anything.  After the lock of a live writer was taken away, it promises  *)
(* nothing.                                                                *)
(***************************************************************************)
CONSTANTS Processes, Blind

VARIABLES
  file,    \* the contents, named after their writer
  expect,  \* expect[p]: what p has loaded, or Blind
  broken   \* the lock of a live writer was taken away

vars == << file, expect, broken >>

Init ==
  /\ file = Blind
  /\ expect = [p \in Processes |-> Blind]
  /\ broken = FALSE

Load(p) ==
  /\ \E e \in { file, Blind } : expect' = [expect EXCEPT ![p] = e]
  /\ file' = file

Save(p) ==
  /\ expect[p] \in { file, Blind } \/ broken
  /\ file' = p
  /\ expect' = expect

Next ==
  /\ broken' \in { broken, TRUE }
  /\ \/ UNCHANGED << file, expect >>
     \/ \E p \in Processes : Load(p) \/ Save(p)

Spec == Init /\ [][Next]_vars
=============================================================================
