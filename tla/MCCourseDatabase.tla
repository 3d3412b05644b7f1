-------------------------- MODULE MCCourseDatabase --------------------------
(***************************************************************************)
(* Three protocols of the database that share no row, checked side by      *)
(* side: a behaviour chooses one of them and leaves the others alone.      *)
(*                                                                         *)
(* The publication has three configurations: a lexical index with and      *)
(* without the approval of a teacher, and a vector index.  Their bounds on *)
(* the review calls are just enough for a recall in the first and an       *)
(* approval in the second.                                                 *)
(***************************************************************************)
EXTENDS CoursePublication, SqliteImport, AccountErasure

CONSTANTS ca, cb, a1, a2

Configurations ==
    { [vectors |-> FALSE, required |-> TRUE,  calls |-> 4],
      [vectors |-> FALSE, required |-> FALSE, calls |-> 3],
      [vectors |-> TRUE,  required |-> FALSE, calls |-> 0] }

SecondRefersToFirst == [r \in 1..3 |-> IF r = 2 THEN 1 ELSE 0]

OnePerClass == [a \in Attempts |-> IF a = a1 THEN ca ELSE cb]

StoreOrder == <<"m8", "m5", "m0">>

VARIABLE part

Init ==
    /\ part \in {"publication", "import", "erasure"}
    /\ PublicationInit /\ ImportInit /\ ErasureInit
    /\ part # "publication" => setting = CHOOSE s \in Settings : TRUE
    /\ part # "erasure" => vendor = CHOOSE v \in Vendors : TRUE

Next ==
    /\ UNCHANGED part
    /\ \/ /\ part = "publication"
          /\ PublicationNext
          /\ UNCHANGED <<importVars, erasureVars>>
       \/ /\ part = "import"
          /\ ImportNext
          /\ UNCHANGED <<publicationVars, erasureVars>>
       \/ /\ part = "erasure"
          /\ ErasureNext
          /\ UNCHANGED <<publicationVars, importVars>>

ImportFairness ==
    \A m \in Migrators :
        /\ WF_importVars(part = "import" /\ ProceedRun(m))
        /\ WF_importVars(part = "import" /\ StartRun(m))

Spec ==
    /\ Init
    /\ [][Next]_<<part, publicationVars, importVars, erasureVars>>
    /\ PublicationFairness
    /\ ImportFairness
    /\ ErasureFairness

(* The variables of all three keep their types. *)
TypeOK == PublicationTypeOK /\ ImportTypeOK /\ ErasureTypeOK

(* What is begun is brought to an end in each of the three: requests of a    *)
(* course return, an import nobody interferes with copies everything, and    *)
(* the files of deleted accounts go, those that cannot be removed excepted.  *)
EverythingEnds == PublicationRequestsEnd /\ ImportCompletes /\ FilesRemoved
=============================================================================
