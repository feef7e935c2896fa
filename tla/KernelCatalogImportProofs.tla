--------------------- MODULE KernelCatalogImportProofs ---------------------
(***************************************************************************)
(* Proofs about KernelCatalogImport, for any number of resources, entries, *)
(* faults and foreign changes.                                             *)
(***************************************************************************)
EXTENDS KernelCatalogImport, TLAPS

(* What the helpers of the actions do to the types.                        *)
LEMMA StartImportType ==
    ASSUME TypeOK, NEW e \in Entries, StartImport(e)
    PROVE  /\ work' \subseteq Entries \ kernels
           /\ failed' \subseteq failed /\ ghosts' \subseteq ghosts
           /\ work' \subseteq work \cup {e} /\ work \subseteq work'
BY DEF TypeOK, StartImport, status

LEMMA RemoveKernelType ==
    ASSUME TypeOK, NEW e \in Entries, RemoveKernel(e)
    PROVE  /\ kernels' = kernels \ {e}
           /\ ghosts' \subseteq Entries \ kernels'
           /\ setback \subseteq setback' /\ setback' \subseteq Resources
BY DEF TypeOK, RemoveKernel, Waiting

(* Every variable keeps its type.                                          *)
LEMMA TypeStep ==
    ASSUME TypeOK, [Next]_vars
    PROVE  TypeOK'
<1> USE CatalogAssumption
<1>f. ASSUME Fault PROVE faults' \in 0 .. MaxFaults
  BY <1>f DEF Fault, TypeOK
<1>g. ASSUME NEW r \in Resources, NEW h \in {"ok", "failed", "error"}, Fail(r, h)
      PROVE  /\ pc' \in [Resources -> {"idle", "polling", "listing"}]
             /\ result' \in [Resources -> {"ok", "failed", "error"}]
             /\ fresh' \in [Resources -> BOOLEAN]
  BY <1>g DEF Fail, Ends, TypeOK
<1>e. ASSUME NEW r \in Resources, NEW h \in {"ok", "failed", "error"}, Ends(r, h)
      PROVE  /\ pc' \in [Resources -> {"idle", "polling", "listing"}]
             /\ result' \in [Resources -> {"ok", "failed", "error"}]
  BY <1>e DEF Ends, TypeOK
<1>1. ASSUME NEW e \in Entries, ImportBegins(e) PROVE TypeOK'
  BY <1>1 DEF ImportBegins, TypeOK, history, bounds
<1>2. ASSUME NEW e \in Entries, ImportEnds(e) PROVE TypeOK'
  <2>1. CASE AddKernel(e) /\ UNCHANGED <<failed, setback, faults>>
    BY <1>2, <2>1 DEF ImportEnds, AddKernel, TypeOK
  <2>2. CASE /\ Fault /\ failed' = failed \cup {e} /\ UNCHANGED <<kernels, ghosts>>
             /\ setback' = setback \cup Waiting(e)
    BY <1>2, <1>f, <2>2 DEF ImportEnds, Waiting, TypeOK
  <2> QED BY <1>2, <2>1, <2>2 DEF ImportEnds
<1>w. ASSUME NEW r \in Resources, CreateDue(r) PROVE want[r] \in Entries
  BY <1>w DEF CreateDue, TypeOK
<1>3. ASSUME NEW r \in Resources, Import(r) PROVE TypeOK'
  <2>1. want[r] \in Entries /\ StartImport(want[r])
    BY <1>3, <1>w DEF Import
  <2> QED BY <1>3, <2>1, StartImportType DEF Import, TypeOK, bounds
<1>4. ASSUME NEW r \in Resources, ImportRefused(r) PROVE TypeOK'
  BY <1>4, <1>g DEF ImportRefused, TypeOK, controller, status, history, bounds
<1>c. ASSUME NEW r \in Resources, NEW s, s \subseteq Entries, Leave(r, s)
      PROVE  left' \subseteq Entries
  BY <1>c DEF Leave, TypeOK
<1>5. ASSUME NEW r \in Resources, ImportFails(r) PROVE TypeOK'
  <2>1. want[r] \in Entries /\ Fail(r, "error") /\ faults' \in 0 .. MaxFaults
    BY <1>5, <1>w, <1>f DEF ImportFails
  <2>2. /\ work' \subseteq Entries \ kernels
        /\ failed' \subseteq failed /\ ghosts' \subseteq ghosts
    BY <1>5, <2>1, StartImportType DEF ImportFails, TypeOK, status
  <2>3. left' \subseteq Entries
    BY <1>5, <1>c, <2>2 DEF ImportFails
  <2> QED BY <1>5, <1>g, <2>1, <2>2, <2>3 DEF ImportFails, TypeOK
<1>6. ASSUME NEW r \in Resources, Poll(r) PROVE TypeOK'
  <2>1. /\ pc' \in [Resources -> {"idle", "polling", "listing"}]
        /\ result' \in [Resources -> {"ok", "failed", "error"}]
        /\ fresh' \in [Resources -> BOOLEAN] /\ left' \subseteq Entries
    <3>1. CASE pc' = [pc EXCEPT ![r] = "listing"] /\ UNCHANGED <<result, fresh, left>>
      BY <3>1 DEF TypeOK
    <3>2. CASE Fail(r, "failed") /\ Leave(r, work)
      BY <3>2, <1>g, <1>c DEF TypeOK
    <3> QED BY <1>6, <3>1, <3>2 DEF Poll
  <2> QED BY <1>6, <2>1 DEF Poll, TypeOK, controller, status, bounds
<1>7. ASSUME NEW r \in Resources, GiveUp(r) PROVE TypeOK'
  <2>1. Fail(r, "error") /\ left' \subseteq Entries /\ faults' \in 0 .. MaxFaults
    BY <1>7, <1>c, <1>f DEF GiveUp, TypeOK
  <2> QED BY <1>7, <1>g, <2>1 DEF GiveUp, TypeOK, controller, status
<1>8. ASSUME NEW r \in Resources, List(r) PROVE TypeOK'
  <2>1. CASE want[r] \in kernels /\ Save(r) /\ Ends(r, "ok") /\ UNCHANGED fresh
    BY <1>8, <1>e, <2>1 DEF List, Save, TypeOK, controller, status, bounds
  <2>2. CASE Fail(r, "error") /\ Leave(r, work) /\ UNCHANGED <<saved, foreign>>
    <3>1. left' \subseteq Entries
      BY <1>c, <2>2 DEF TypeOK
    <3> QED BY <1>8, <1>g, <2>2, <3>1 DEF List, TypeOK, controller, status, bounds
  <2> QED BY <1>8, <2>1, <2>2 DEF List
<1>9. ASSUME NEW r \in Resources, ListFails(r) PROVE TypeOK'
  <2>1. Fail(r, "error") /\ left' \subseteq Entries /\ faults' \in 0 .. MaxFaults
    BY <1>9, <1>c, <1>f DEF ListFails, TypeOK
  <2> QED BY <1>9, <1>g, <2>1 DEF ListFails, TypeOK, controller, status
<1>10. ASSUME NEW r \in Resources, Read(r) PROVE TypeOK'
  BY <1>10 DEF Read, TypeOK, controller, status, history, bounds
<1>11. ASSUME NEW r \in Resources, ReadFails(r) PROVE TypeOK'
  <2>1. Fail(r, "error") /\ faults' \in 0 .. MaxFaults
    BY <1>11, <1>f DEF ReadFails
  <2> QED BY <1>11, <1>g, <2>1 DEF ReadFails, TypeOK, controller, status, history
<1>d. ASSUME NEW r \in Resources, DeleteDue(r) PROVE saved[r] \in Entries
  BY <1>d DEF DeleteDue, TypeOK
<1>12. ASSUME NEW r \in Resources, Delete(r) PROVE TypeOK'
  <2>1. saved[r] \in Entries /\ RemoveKernel(saved[r]) /\ Ends(r, "ok")
    BY <1>12, <1>d DEF Delete
  <2> QED BY <1>12, <1>e, <2>1, RemoveKernelType DEF Delete, TypeOK, bounds
<1>13. ASSUME NEW r \in Resources, DeleteFails(r) PROVE TypeOK'
  <2>1. saved[r] \in Entries /\ faults' \in 0 .. MaxFaults
    BY <1>13, <1>d, <1>f DEF DeleteFails
  <2>2. /\ kernels' \subseteq kernels /\ ghosts' \subseteq Entries \ kernels'
        /\ setback' \subseteq Resources
    BY <1>13, <2>1, RemoveKernelType DEF DeleteFails, TypeOK
  <2>3. /\ pc' \in [Resources -> {"idle", "polling", "listing"}]
        /\ result' \in [Resources -> {"ok", "failed", "error"}]
        /\ fresh' \in [Resources -> BOOLEAN]
        /\ saved' \in [Resources -> Entries \cup {None}]
    <3>1. CASE saved' = [saved EXCEPT ![r] = None] /\ Ends(r, "ok") /\ UNCHANGED fresh
      BY <1>e, <3>1 DEF TypeOK
    <3>2. CASE UNCHANGED saved /\ Fail(r, "error")
      BY <1>g, <3>2 DEF TypeOK
    <3> QED BY <1>13, <3>1, <3>2 DEF DeleteFails
  <2> QED BY <1>13, <2>1, <2>2, <2>3 DEF DeleteFails, TypeOK
<1>14. CASE Foreign
  <2>1. PICK e \in Entries :
          \/ /\ e \notin work \cup kernels /\ StartImport(e)
             /\ foreign' = foreign \cup {e} /\ UNCHANGED <<kernels, setback>>
          \/ /\ e \in kernels /\ RemoveKernel(e)
             /\ UNCHANGED <<work, failed, foreign>>
    BY <1>14 DEF Foreign
  <2>2. drifts' \in 0 .. MaxDrift
    BY <1>14 DEF Foreign, TypeOK
  <2>3. CASE StartImport(e) /\ foreign' = foreign \cup {e} /\ UNCHANGED <<kernels, setback>>
    BY <1>14, <2>2, <2>3, StartImportType DEF Foreign, TypeOK
  <2>4. CASE RemoveKernel(e) /\ UNCHANGED <<work, failed, foreign>>
    BY <1>14, <2>2, <2>4, RemoveKernelType DEF Foreign, TypeOK
  <2> QED BY <2>1, <2>3, <2>4
<1>15. CASE Edit
  <2>1. edits' \in 0 .. MaxEdits
    BY <1>15 DEF Edit, TypeOK
  <2> QED BY <1>15, <2>1 DEF Edit, TypeOK, controller, status, history
<1>16. CASE UNCHANGED vars
  BY <1>16 DEF vars, TypeOK, controller, status, history, bounds
<1> QED
  BY <1>1, <1>2, <1>3, <1>4, <1>5, <1>6, <1>7, <1>8, <1>9, <1>10, <1>11, <1>12, <1>13,
     <1>14, <1>15, <1>16 DEF Next, Worker, Create

(* Every variable has its type, for any number of resources and entries.   *)
THEOREM TypeCorrect == Spec => []TypeOK
<1>1. Init => TypeOK
  BY CatalogAssumption DEF Init, TypeOK
<1> QED BY <1>1, TypeStep, PTL DEF Spec

-----------------------------------------------------------------------------
(* Which kernels are accounted for *)

(* An import that is under way is waited for, or somebody left or began it;*)
(* that explains the kernel when the import ends.                          *)
WorkAccounted ==
    \A e \in work : (\E r \in Resources : r \in Waiting(e)) \/ e \in foreign \cup left

(* A resource that is being created has nothing saved.                     *)
UnsavedYet == \A r \in Resources : pc[r] # "idle" => saved[r] = None

Accounting == TypeOK /\ UnsavedYet /\ WorkAccounted /\ KernelsAccounted

LEMMA UnsavedStep ==
    ASSUME TypeOK, UnsavedYet, [Next]_vars
    PROVE  UnsavedYet'
<1> USE DEF UnsavedYet, TypeOK
<1>1. ASSUME NEW e \in Entries, Worker(e) PROVE UnsavedYet'
  BY <1>1 DEF Worker, ImportBegins, ImportEnds
<1>2. ASSUME NEW r \in Resources, Import(r) PROVE UnsavedYet'
  BY <1>2 DEF Import, CreateDue
<1>3. ASSUME NEW r \in Resources, ImportRefused(r) \/ ImportFails(r) PROVE UnsavedYet'
  BY <1>3 DEF ImportRefused, ImportFails, Fail, Ends
<1>4. ASSUME NEW r \in Resources, Create(r) PROVE UnsavedYet'
  BY <1>4 DEF Create, Poll, GiveUp, List, ListFails, Save, Fail, Ends
<1>5. ASSUME NEW r \in Resources, Read(r) \/ ReadFails(r) PROVE UnsavedYet'
  BY <1>5 DEF Read, ReadFails, Fail, Ends
<1>6. ASSUME NEW r \in Resources, Delete(r) \/ DeleteFails(r) PROVE UnsavedYet'
  BY <1>6 DEF Delete, DeleteFails, Fail, Ends
<1>7. CASE Foreign \/ Edit \/ UNCHANGED vars
  BY <1>7 DEF Foreign, Edit, vars
<1> QED BY <1>1, <1>2, <1>3, <1>4, <1>5, <1>6, <1>7 DEF Next

(* Nothing of that depends on an error being real or a status being fresh. *)
LEMMA AccountingStep ==
    ASSUME Accounting, [Next]_vars
    PROVE  (WorkAccounted /\ KernelsAccounted)'
<1> USE DEF Accounting
<1>t. TypeOK /\ WorkAccounted /\ KernelsAccounted
  OBVIOUS
<1>u. TypeOK'
  BY <1>t, TypeStep
(* A Create that ends leaves its entry. *)
<1>g. ASSUME NEW r \in Resources, NEW h, Fail(r, h), Leave(r, work'),
             work' \subseteq work \cup {want[r]}, kernels' = kernels, want' = want,
             saved' = saved, foreign' = foreign
      PROVE  (WorkAccounted /\ KernelsAccounted)'
  <2>1. \A e : (\E q \in Resources : q \in Waiting(e)) =>
           (\E q \in Resources : q \in Waiting(e)') \/ e = want[r]
    BY <1>g, <1>t DEF Fail, Ends, Waiting, TypeOK
  <2>2. left \subseteq left' /\ (want[r] \in work' \cup kernels => want[r] \in left')
    BY <1>g DEF Leave
  <2>3. WorkAccounted'
    BY <1>g, <1>t, <2>1, <2>2 DEF WorkAccounted
  <2>4. KernelsAccounted'
    BY <1>g, <1>t, <2>1, <2>2 DEF KernelsAccounted
  <2> QED BY <2>3, <2>4
(* What does not end a Create only has to explain new imports and kernels. *)
<1>s. ASSUME \A e : Waiting(e) \subseteq Waiting(e)', left' = left, foreign \subseteq foreign',
             \A e \in work' : e \in work \/ Waiting(e)' # {} \/ e \in foreign',
             \A e \in kernels' : e \in kernels \cup work,
             \A e \in kernels' : \A r \in Resources :
                 saved[r] = e => saved'[r] = e \/ e \in IdsWith404
      PROVE  (WorkAccounted /\ KernelsAccounted)'
  <2>1. WorkAccounted'
    BY <1>s, <1>t DEF WorkAccounted, Waiting
  <2>2. KernelsAccounted'
    BY <1>s, <1>t DEF WorkAccounted, KernelsAccounted, Waiting
  <2> QED BY <2>1, <2>2
<1>1. ASSUME NEW e \in Entries, ImportBegins(e) PROVE (WorkAccounted /\ KernelsAccounted)'
  BY <1>1, <1>s DEF ImportBegins, history, Waiting
<1>2. ASSUME NEW e \in Entries, ImportEnds(e) PROVE (WorkAccounted /\ KernelsAccounted)'
  <2>1. /\ \A x : Waiting(x)' = Waiting(x)
        /\ left' = left /\ foreign' = foreign /\ saved' = saved
        /\ work' \subseteq work /\ kernels' \subseteq kernels \cup work
    BY <1>2 DEF ImportEnds, AddKernel, Waiting
  <2> QED BY <1>s, <2>1
<1>3. ASSUME NEW r \in Resources, Import(r) PROVE (WorkAccounted /\ KernelsAccounted)'
  <2>1. /\ left' = left /\ foreign' = foreign /\ saved' = saved /\ kernels' = kernels
        /\ work' \subseteq work \cup {want[r]}
    BY <1>3 DEF Import, StartImport
  <2>2. (\A e : Waiting(e) \subseteq Waiting(e)') /\ \A e : e = want[r] => r \in Waiting(e)'
    BY <1>3, <1>t DEF Import, Waiting, TypeOK
  <2> QED BY <1>s, <2>1, <2>2
<1>4. ASSUME NEW r \in Resources, ImportRefused(r) PROVE (WorkAccounted /\ KernelsAccounted)'
  <2>1. \A e : Waiting(e)' = Waiting(e)
    BY <1>4, <1>t DEF ImportRefused, CreateDue, Fail, Ends, Waiting, TypeOK
  <2> QED BY <1>4, <1>s, <2>1 DEF ImportRefused, controller, history
<1>5. ASSUME NEW r \in Resources, ImportFails(r) PROVE (WorkAccounted /\ KernelsAccounted)'
  <2>1. work' \subseteq work \cup {want[r]}
    BY <1>5 DEF ImportFails, StartImport
  <2> QED BY <1>5, <1>g, <2>1 DEF ImportFails
<1>6. ASSUME NEW r \in Resources, Poll(r) PROVE (WorkAccounted /\ KernelsAccounted)'
  <2>1. CASE pc' = [pc EXCEPT ![r] = "listing"] /\ UNCHANGED <<result, fresh, left>>
    <3>1. \A e : Waiting(e) \subseteq Waiting(e)'
      BY <1>6, <1>t, <2>1 DEF Poll, Waiting, TypeOK
    <3> QED BY <1>6, <1>s, <2>1, <3>1 DEF Poll, controller
  <2>2. CASE Fail(r, "failed") /\ Leave(r, work)
    BY <1>6, <1>g, <2>2 DEF Poll, controller
  <2> QED BY <1>6, <2>1, <2>2 DEF Poll
<1>7. ASSUME NEW r \in Resources, GiveUp(r) PROVE (WorkAccounted /\ KernelsAccounted)'
  BY <1>7, <1>g DEF GiveUp, controller
<1>8. ASSUME NEW r \in Resources, List(r) PROVE (WorkAccounted /\ KernelsAccounted)'
  <2>1. CASE want[r] \in kernels /\ Save(r) /\ Ends(r, "ok")
    <3>1. want[r] \notin work /\ saved'[r] = want[r]
      BY <1>t, <2>1 DEF TypeOK, Save
    <3>2. \A e : e # want[r] => Waiting(e)' = Waiting(e)
      BY <1>8, <1>t, <2>1 DEF List, Ends, Waiting, TypeOK
    <3>3. \A e : e # want[r] =>
             /\ e \in foreign \cup left => e \in foreign' \cup left'
             /\ \A q \in Resources : saved[q] = e /\ q # r => saved'[q] = e
      BY <1>t, <2>1 DEF Save, TypeOK
    <3>4. work' = work /\ kernels' = kernels /\ saved[r] \notin kernels
      BY <1>8, <1>t, CatalogAssumption DEF List, controller, UnsavedYet, TypeOK
    <3> QED BY <1>t, <3>1, <3>2, <3>3, <3>4 DEF WorkAccounted, KernelsAccounted
  <2>2. CASE Fail(r, "error") /\ Leave(r, work) /\ UNCHANGED <<saved, foreign>>
    BY <1>8, <1>g, <2>2 DEF List, controller
  <2> QED BY <1>8, <2>1, <2>2 DEF List
<1>9. ASSUME NEW r \in Resources, ListFails(r) PROVE (WorkAccounted /\ KernelsAccounted)'
  BY <1>9, <1>g DEF ListFails, controller
<1>10. ASSUME NEW r \in Resources, Read(r) PROVE (WorkAccounted /\ KernelsAccounted)'
  <2>1. \A e : Waiting(e)' = Waiting(e)
    BY <1>10 DEF Read, Waiting
  <2>2. \A e \in kernels : \A q \in Resources : saved[q] = e => saved'[q] = e
    BY <1>10, <1>t DEF Read, TypeOK
  <2> QED BY <1>10, <1>s, <2>1, <2>2 DEF Read, controller, history
<1>11. ASSUME NEW r \in Resources, ReadFails(r) PROVE (WorkAccounted /\ KernelsAccounted)'
  <2>1. \A e : Waiting(e)' = Waiting(e)
    BY <1>11, <1>t DEF ReadFails, Fail, Ends, Waiting, TypeOK
  <2> QED BY <1>11, <1>s, <2>1 DEF ReadFails, controller, history
<1>12. ASSUME NEW r \in Resources, Delete(r) PROVE (WorkAccounted /\ KernelsAccounted)'
  <2>1. \A e : Waiting(e)' = Waiting(e)
    BY <1>12, <1>t DEF Delete, DeleteDue, Ends, Waiting, TypeOK
  <2>2. \A e \in kernels' : \A q \in Resources : saved[q] = e => saved'[q] = e
    BY <1>12, <1>t DEF Delete, RemoveKernel, TypeOK
  <2> QED BY <1>12, <1>s, <2>1, <2>2 DEF Delete, RemoveKernel
<1>13. ASSUME NEW r \in Resources, DeleteFails(r) PROVE (WorkAccounted /\ KernelsAccounted)'
  <2>1. \A e : Waiting(e)' = Waiting(e)
    BY <1>13, <1>t DEF DeleteFails, DeleteDue, Fail, Ends, Waiting, TypeOK
  <2>2. \A e \in kernels' : \A q \in Resources :
           saved[q] = e => saved'[q] = e \/ e \in IdsWith404
    BY <1>13, <1>t DEF DeleteFails, TakenFor404, TypeOK
  <2>3. kernels' \subseteq kernels
    BY <1>13 DEF DeleteFails, RemoveKernel
  <2> QED BY <1>13, <1>s, <2>1, <2>2, <2>3 DEF DeleteFails
<1>14. CASE Foreign
  <2>1. \A e : Waiting(e)' = Waiting(e)
    BY <1>14 DEF Foreign, Waiting
  <2>2. /\ kernels' \subseteq kernels /\ saved' = saved /\ left' = left
        /\ foreign \subseteq foreign' /\ work' \subseteq work \cup foreign'
    BY <1>14 DEF Foreign, StartImport, RemoveKernel
  <2> QED BY <1>s, <2>1, <2>2
<1>15. CASE Edit
  <2>1. \A e : Waiting(e)' = Waiting(e)
    BY <1>15, <1>t DEF Edit, Waiting, TypeOK
  <2> QED BY <1>15, <1>s, <2>1 DEF Edit, controller, history
<1>16. CASE UNCHANGED vars
  BY <1>16, <1>s DEF vars, controller, history, Waiting
<1> QED
  BY <1>1, <1>2, <1>3, <1>4, <1>5, <1>6, <1>7, <1>8, <1>9, <1>10, <1>11, <1>12, <1>13,
     <1>14, <1>15, <1>16 DEF Next, Worker, Create

(* A kernel that no resource has saved and no Create waits for was left by *)
(* a Create that reported an error, was imported by others, or has an ID   *)
(* with 404 in it - for any number of resources with the same entries.     *)
THEOREM KernelsAreAccounted == Spec => []KernelsAccounted
<1>1. Init => UnsavedYet /\ WorkAccounted /\ KernelsAccounted
  BY DEF Init, UnsavedYet, WorkAccounted, KernelsAccounted
<1>2. UnsavedYet /\ WorkAccounted /\ KernelsAccounted /\ TypeOK /\ [Next]_vars
        => (UnsavedYet /\ WorkAccounted /\ KernelsAccounted)'
  BY UnsavedStep, AccountingStep DEF Accounting
<1> QED BY <1>1, <1>2, TypeCorrect, PTL DEF Spec

-----------------------------------------------------------------------------
(* Which failures are real *)

(* An error is not shown with a kernel, nor - if the controller's answers  *)
(* are not stale - with an import under way; so a Create that sees one is  *)
(* one whose import failed.                                                *)
ErrorsAreRecent ==
    /\ failed \cap kernels = {}
    /\ ~stale => failed \cap work = {}
    /\ \A r \in Resources :
          pc[r] = "polling" /\ want[r] \in failed => stale \/ r \in setback

LEMMA RecentStep ==
    ASSUME TypeOK, ErrorsAreRecent, FailureIsReal, [Next]_vars
    PROVE  (ErrorsAreRecent /\ FailureIsReal)'
<1> USE DEF ErrorsAreRecent, FailureIsReal
(* Steps that leave the imports alone. *)
<1>s. ASSUME failed' \subseteq failed, kernels' \subseteq kernels, work' = work,
             stale' = stale, setback \subseteq setback',
             \A r \in Resources : pc'[r] = "polling" => pc[r] = "polling" /\ want'[r] = want[r],
             \A r \in Resources : result'[r] = "failed" =>
                 result[r] = "failed" \/ (pc[r] = "polling" /\ want[r] \in failed)
      PROVE  (ErrorsAreRecent /\ FailureIsReal)'
  BY <1>s
<1>1. ASSUME NEW e \in Entries, ImportBegins(e) PROVE (ErrorsAreRecent /\ FailureIsReal)'
  BY <1>1, <1>s DEF ImportBegins, history
<1>2. ASSUME NEW e \in Entries, ImportEnds(e) PROVE (ErrorsAreRecent /\ FailureIsReal)'
  <2>1. e \in work \ failed /\ work' = work \ {e} /\ UNCHANGED <<stale, pc, want, result>>
    BY <1>2 DEF ImportEnds
  <2>2. CASE AddKernel(e) /\ UNCHANGED <<failed, setback, faults>>
    BY <2>1, <2>2 DEF AddKernel, TypeOK
  <2>3. CASE failed' = failed \cup {e} /\ kernels' = kernels /\ setback' = setback \cup Waiting(e)
    BY <2>1, <2>3 DEF Waiting, TypeOK
  <2> QED BY <1>2, <2>2, <2>3 DEF ImportEnds
<1>3. ASSUME NEW r \in Resources, Import(r) PROVE (ErrorsAreRecent /\ FailureIsReal)'
  <2>1. /\ UNCHANGED <<kernels, stale, want>> /\ setback' = setback \ {r}
        /\ pc' = [pc EXCEPT ![r] = "polling"] /\ result' = [result EXCEPT ![r] = "ok"]
        /\ failed' \subseteq failed
    BY <1>3 DEF Import, StartImport, status
  <2>2. ~stale => failed' \cap work' = {} /\ want[r] \notin failed'
    BY <1>3 DEF Import, StartImport, status
  <2> QED BY <2>1, <2>2 DEF TypeOK
<1>4. ASSUME NEW r \in Resources, ImportRefused(r) PROVE (ErrorsAreRecent /\ FailureIsReal)'
  BY <1>4, <1>s DEF ImportRefused, Fail, Ends, TypeOK, controller, status, history
<1>5. ASSUME NEW r \in Resources, ImportFails(r) PROVE (ErrorsAreRecent /\ FailureIsReal)'
  <2>1. /\ UNCHANGED <<kernels, stale, want, setback>> /\ failed' \subseteq failed
        /\ pc' = [pc EXCEPT ![r] = "idle"] /\ result' = [result EXCEPT ![r] = "error"]
    BY <1>5 DEF ImportFails, StartImport, status, Fail, Ends
  <2>2. ~stale => failed' \cap work' = {}
    BY <1>5 DEF ImportFails, StartImport, status
  <2> QED BY <2>1, <2>2 DEF TypeOK
<1>6. ASSUME NEW r \in Resources, Create(r) PROVE (ErrorsAreRecent /\ FailureIsReal)'
  BY <1>6, <1>s DEF Create, Poll, GiveUp, List, ListFails, Fail, Ends, TypeOK, controller, status
<1>7. ASSUME NEW r \in Resources, Read(r) \/ ReadFails(r)
      PROVE  (ErrorsAreRecent /\ FailureIsReal)'
  BY <1>7, <1>s DEF Read, ReadFails, Fail, Ends, TypeOK, controller, status, history
<1>8. ASSUME NEW r \in Resources, Delete(r) \/ DeleteFails(r)
      PROVE  (ErrorsAreRecent /\ FailureIsReal)'
  BY <1>8, <1>s DEF Delete, DeleteFails, RemoveKernel, Fail, Ends, TypeOK
<1>9. CASE Foreign
  <2>1. CASE \E e \in Entries : StartImport(e) /\ UNCHANGED <<kernels, setback>>
    BY <1>9, <2>1 DEF Foreign, StartImport, status
  <2>2. CASE \E e \in Entries : RemoveKernel(e) /\ UNCHANGED <<work, failed, foreign>>
    BY <1>9, <1>s, <2>2 DEF Foreign, RemoveKernel
  <2> QED BY <1>9, <2>1, <2>2 DEF Foreign
<1>10. CASE Edit
  BY <1>10, <1>s DEF Edit, TypeOK, controller, status, history
<1>11. CASE UNCHANGED vars
  BY <1>11, <1>s DEF vars, controller, status, history
<1> QED
  BY <1>1, <1>2, <1>3, <1>4, <1>5, <1>6, <1>7, <1>8, <1>9, <1>10, <1>11 DEF Next, Worker

(* A Create that reports a failed import has seen the error of an import   *)
(* that failed, or that lost its kernel, after it had asked for it, unless *)
(* the controller shows the error of an earlier one.                       *)
THEOREM FailuresAreReal == Spec => []FailureIsReal
<1>1. Init => ErrorsAreRecent /\ FailureIsReal
  BY DEF Init, ErrorsAreRecent, FailureIsReal
<1>2. TypeOK /\ ErrorsAreRecent /\ FailureIsReal /\ [Next]_vars
        => (ErrorsAreRecent /\ FailureIsReal)'
  BY RecentStep
<1> QED BY <1>1, <1>2, TypeCorrect, PTL DEF Spec
=============================================================================
