--------------------------- MODULE ManagedObject ---------------------------
(***************************************************************************)
(* What every resource that makes an object of its own promises about that *)
(* object, whatever it is and however many requests its handlers take: it  *)
(* follows one object at a time, it makes none while it follows one, it    *)
(* removes none but the one that is saved, and it never takes up again one *)
(* that it has lost.  An object that exists is lost, by a Create that      *)
(* reports an error or where an error is taken for "not found", only at    *)
(* the expense of a failure: in the very step in which a request fails, or *)
(* because the controller shows the object as broken.                      *)
(*                                                                         *)
(* failures and broken belong to the environment and may change at any     *)
(* time, so that Spec does not constrain them.                             *)
(*                                                                         *)
(* SecurityGroup, PublicIP, VPC, KubeCluster, VM and PlainResource         *)
(* implement it.                                                           *)
(***************************************************************************)
EXTENDS Integers

CONSTANTS
    Ids,     \* IDs of objects
    NoId,    \* none of them
    Misread  \* objects of which any error may be taken for "not found"

VARIABLES
    exists,   \* the objects that exist on the controller
    saved,    \* the object Terraform has saved
    held,     \* the object that a running handler is making, or the saved one
    disowned, \* the objects a Create or a Read lost
    failures, \* the number of requests that failed so far
    broken    \* the objects the controller itself shows as failed

vars == <<exists, saved, held, disowned>>

Init == exists = {} /\ saved = NoId /\ held = NoId /\ disowned = {}

(* A request fails in this step. *)
Failure == failures' > failures

(* The object is made; it is saved at once, or when the Create has ended. *)
Make ==
    /\ held = NoId
    /\ \E i \in Ids \ (exists \cup disowned) :
          /\ exists' = exists \cup {i}
          /\ held' = i /\ saved' \in {NoId, i}
    /\ UNCHANGED disowned

(* The object is made and the answer lost. *)
MakeLost ==
    /\ held = NoId /\ Failure
    /\ \E i \in Ids \ (exists \cup disowned) :
          /\ exists' = exists \cup {i}
          /\ disowned' = disowned \cup {i}
    /\ UNCHANGED <<saved, held>>

Save ==
    /\ held # NoId
    /\ saved' = held
    /\ UNCHANGED <<exists, held, disowned>>

(* A Create that has made its object reports an error. *)
Abandon ==
    /\ held # NoId /\ saved = NoId
    /\ held \in exists => Failure \/ held \in broken
    /\ held' = NoId
    /\ disowned' = disowned \cup {held}
    /\ UNCHANGED <<exists, saved>>

(* The object is deleted; without an answer it stays saved. *)
Remove ==
    /\ saved \in exists
    /\ exists' = exists \ {saved}
    /\ \/ saved' = NoId /\ held' = NoId
       \/ UNCHANGED <<saved, held>>
    /\ UNCHANGED disowned

(* A Read or a Delete finds that the object is gone, or takes an error for *)
(* that.                                                                   *)
Forget ==
    /\ saved # NoId
    /\ saved \in exists => Failure
    /\ saved' = NoId /\ held' = NoId
    /\ \/ /\ saved \in exists => saved \in Misread
          /\ UNCHANGED disowned
       \/ disowned' = disowned \cup {saved}
    /\ UNCHANGED exists

(* Another operator deletes the object. *)
Vanish ==
    /\ held \in exists
    /\ exists' = exists \ {held}
    /\ UNCHANGED <<saved, held, disowned>>

Next == Make \/ MakeLost \/ Save \/ Abandon \/ Remove \/ Forget \/ Vanish

Spec == Init /\ [][Next]_vars

-----------------------------------------------------------------------------
(* The object's variables have their types. *)
TypeOK ==
    /\ exists \subseteq Ids /\ disowned \subseteq Ids
    /\ saved \in Ids \cup {NoId} /\ held \in Ids \cup {NoId}

(* What is saved is what is followed, an object that was lost is not       *)
(* followed, and every object that exists without being followed is one    *)
(* that an error explains.                                                 *)
Accounted ==
    /\ saved \in {NoId, held}
    /\ held = NoId \/ held \notin disowned
    /\ exists \ {held} \subseteq disowned \cup Misread
=============================================================================
