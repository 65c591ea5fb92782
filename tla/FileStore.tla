------------------------------ MODULE FileStore ------------------------------
(***************************************************************************)
(* Uploaded pictures and landing templates (crates/services/src/assets.rs  *)
(* and templates.rs): a row of assets or landing_templates and, under the  *)
(* same id, a file or a directory on disk.  Neither is written in the same *)
(* step as the other, and the cleanup of orphans compares the two.         *)
(*                                                                         *)
(* A picture or template is in use while a row of another table refers to  *)
(* it: a landing profile, a cloak policy, or the copy a route keeps of     *)
(* either.  Those rows are the holders.                                    *)
(***************************************************************************)
EXTENDS Naturals, FiniteSets

CONSTANTS
  Pictures,   (* ids of assets                                              *)
  Templates,  (* ids of landing_templates                                   *)
  Holders,    (* rows that may refer to one of them                         *)
  Ops,        (* places for operations in progress                          *)
  None

ASSUME FileAssumption ==
  /\ Pictures \cap Templates = {} /\ None \notin Pictures \cup Templates
  /\ IsFiniteSet(Holders)

VARIABLES
  row,    (* "none" before the INSERT, "row", "gone" after the DELETE       *)
  disk,   (* "none", "partial" or "whole"                                   *)
  held,   (* what each holder refers to                                     *)
  op,     (* what each operation is doing                                   *)
  risky   (* history: uploads that a cleanup of their kind overlapped       *)

vars == <<row, disk, held, op, risky>>

Ids == Pictures \cup Templates
Kind(id) == IF id \in Pictures THEN Pictures ELSE Templates
InTable(K) == {id \in K : row[id] = "row"}
UsedBy(id) == {h \in Holders : held[h] = id}

Idle == [stage |-> "idle"]
(* "met": a cleanup overlapped the upload; "taken": holders that took what  *)
(* is being deleted after they were counted.                                *)
Jobs ==
  [stage : {"write", "insert"}, id : Ids, met : BOOLEAN]
  \cup [stage : {"delete", "remove"}, id : Ids, taken : SUBSET Holders]
  \cup [stage : {"sweep"}, kind : {Pictures, Templates}, known : SUBSET Ids]

TypeOK ==
  /\ row \in [Ids -> {"none", "row", "gone"}]
  /\ disk \in [Ids -> {"none", "partial", "whole"}]
  /\ held \in [Holders -> Ids \cup {None}]
  /\ \A h \in Holders : held[h] # None => row[held[h]] = "row"
  /\ op \in [Ops -> {Idle} \cup Jobs]
  /\ risky \in SUBSET Ids

Init ==
  /\ row = [id \in Ids |-> "none"]
  /\ disk = [id \in Ids |-> "none"]
  /\ held = [h \in Holders |-> None]
  /\ op = [o \in Ops |-> Idle]
  /\ risky = {}

Go(o, stage) == op' = [op EXCEPT ![o].stage = stage]
End(o) == op' = [op EXCEPT ![o] = Idle]

-----------------------------------------------------------------------------
(* upload and upload_zip.                                                   *)

(* An id nobody has used, and the empty file or the empty directory.        *)
StartUpload(o, id) ==
  /\ op[o] = Idle
  /\ row[id] = "none" /\ disk[id] = "none"
  /\ \A x \in Ops : op[x].stage \in {"write", "insert"} => op[x].id # id
  /\ disk' = [disk EXCEPT ![id] = "partial"]
  /\ op' = [op EXCEPT ![o] =
       [stage |-> "write", id |-> id,
        met |-> \E x \in Ops : op[x].stage = "sweep" /\ op[x].kind = Kind(id)]]
  /\ UNCHANGED <<row, held, risky>>

(* What is on disk after writing to what is left there.  A picture that was *)
(* removed under the writer is gone; unpack_zip makes the directory anew    *)
(* for the files still to come.                                             *)
Written(id) ==
  IF disk[id] = "partial" THEN "whole" ELSE IF id \in Pictures THEN "none" ELSE "partial"

Write(o) ==
  LET id == op[o].id IN
  /\ op[o].stage = "write"
  /\ disk' = [disk EXCEPT ![id] = Written(id)]
  /\ Go(o, "insert")
  /\ UNCHANGED <<row, held, risky>>

(* Variant: the row is inserted before the file is complete.                *)
InsertReadyEarly(o) == op[o].stage \in {"write", "insert"}

(* When the row is inserted.                                                *)
InsertReady(o) == op[o].stage = "insert"

Insert(o) ==
  LET id == op[o].id IN
  /\ InsertReady(o)
  /\ row' = [row EXCEPT ![id] = "row"]
  /\ risky' = IF op[o].met THEN risky \cup {id} ELSE risky
  /\ End(o)
  /\ UNCHANGED <<disk, held>>

-----------------------------------------------------------------------------
(* A profile is saved, or a route that copies it; the foreign key needs the *)
(* row.                                                                     *)
Take(h, id) ==
  /\ row[id] = "row" /\ held[h] # id
  /\ held' = [held EXCEPT ![h] = id]
  /\ op' = [o \in Ops |->
              IF op[o].stage = "delete" /\ op[o].id = id
                THEN [op[o] EXCEPT !.taken = @ \cup {h}] ELSE op[o]]
  /\ UNCHANGED <<row, disk, risky>>

LetGo(h) ==
  /\ held[h] # None
  /\ held' = [held EXCEPT ![h] = None]
  /\ UNCHANGED <<row, disk, op, risky>>

-----------------------------------------------------------------------------
(* delete: the row is there, and nothing refers to it.                      *)

(* Variant: nothing is counted.                                             *)
CountedNone(id) == 0

(* The four, or two, counts.                                                *)
Counted(id) == Cardinality(UsedBy(id))

StartDelete(o, id) ==
  /\ op[o] = Idle
  /\ row[id] = "row" /\ Counted(id) = 0
  /\ op' = [op EXCEPT ![o] = [stage |-> "delete", id |-> id, taken |-> {}]]
  /\ UNCHANGED <<row, disk, held, risky>>

(* ON DELETE SET NULL                                                       *)
SetNull(id) == [h \in Holders |-> IF held[h] = id THEN None ELSE held[h]]

(* The DELETE.  A template in use cannot go: its holder's CHECK wants one.  *)
DeleteRow(o) ==
  LET id == op[o].id IN
  /\ op[o].stage = "delete"
  /\ id \in Templates => UsedBy(id) = {}
  /\ row' = [row EXCEPT ![id] = "gone"]
  /\ held' = SetNull(id)
  /\ Go(o, "remove")
  /\ UNCHANGED <<disk, risky>>

Remove(o) ==
  /\ op[o].stage = "remove"
  /\ disk' = [disk EXCEPT ![op[o].id] = "none"]
  /\ End(o)
  /\ UNCHANGED <<row, held, risky>>

-----------------------------------------------------------------------------
(* cleanup_orphan_files, then cleanup_orphan_dirs.                          *)

(* The names in the table; uploads of this kind have met the cleanup.       *)
Phase(o, K) ==
  op' = [x \in Ops |->
           IF x = o THEN [stage |-> "sweep", kind |-> K, known |-> InTable(K)]
           ELSE IF op[x].stage \in {"write", "insert"} /\ op[x].id \in K
             THEN [op[x] EXCEPT !.met = TRUE] ELSE op[x]]

StartCleanup(o) ==
  /\ op[o] = Idle
  /\ Phase(o, Pictures)
  /\ UNCHANGED <<row, disk, held, risky>>

(* An entry of the directory that is not a known name.                      *)
Sweep(o) ==
  /\ op[o].stage = "sweep"
  /\ \E id \in op[o].kind \ op[o].known :
       disk[id] # "none" /\ disk' = [disk EXCEPT ![id] = "none"]
  /\ UNCHANGED <<row, held, op, risky>>

(* The listing ends, perhaps without what came after it began, or an error  *)
(* ends it; the templates' turn comes in any case.                          *)
EndPhase(o) ==
  /\ op[o].stage = "sweep"
  /\ IF op[o].kind = Pictures THEN Phase(o, Templates) ELSE End(o)
  /\ UNCHANGED <<row, disk, held, risky>>

-----------------------------------------------------------------------------
(* An error, a client that goes away or a crash ends an operation.          *)
Fail(o) ==
  /\ op[o] # Idle
  /\ End(o)
  /\ UNCHANGED <<row, disk, held, risky>>

Next ==
  \/ \E o \in Ops, id \in Ids : StartUpload(o, id) \/ StartDelete(o, id)
  \/ \E o \in Ops :
        \/ Write(o) \/ Insert(o) \/ DeleteRow(o) \/ Remove(o)
        \/ StartCleanup(o) \/ Sweep(o) \/ EndPhase(o) \/ Fail(o)
  \/ \E h \in Holders : LetGo(h) \/ \E id \in Ids : Take(h, id)

Spec == Init /\ [][Next]_vars

-----------------------------------------------------------------------------
(* What has a row can be shown: its file is there and complete, unless a    *)
(* cleanup of its kind ran during its upload and took the file for an       *)
(* orphan.  No deletion, cleanup or failure at another time takes it away.  *)
RowHasFile ==
  \A id \in Ids : row[id] = "row" /\ id \notin risky => disk[id] = "whole"

(* A row in use is not deleted, unless it is a picture's and every holder   *)
(* took it after the deletion had counted them.                             *)
InUseStays ==
  [][\A id \in Ids : row[id] = "row" /\ row'[id] = "gone" /\ UsedBy(id) # {} =>
       /\ id \in Pictures
       /\ \E o \in Ops : op[o].stage = "delete" /\ op[o].id = id /\ UsedBy(id) \subseteq op[o].taken]_vars
=============================================================================
