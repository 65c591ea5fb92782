-------------------------- MODULE FileStore_proofs --------------------------
(***************************************************************************)
(* Proofs about uploaded pictures and templates, for every number of them, *)
(* of rows that refer to them and of operations at the same time.          *)
(***************************************************************************)
EXTENDS FileStore, FiniteSetTheorems, TLAPS

Uploading == {"write", "insert"}

(* An upload has no row yet, and what is on disk is what it wrote, unless it*)
(* has met a cleanup.                                                       *)
UploadOK(o) ==
  op[o].stage \in Uploading =>
    /\ row[op[o].id] = "none"
    /\ ~op[o].met => disk[op[o].id] = IF op[o].stage = "write" THEN "partial" ELSE "whole"

(* No two uploads share an id.                                              *)
DistinctUploads ==
  \A o, x \in Ops :
    op[o].stage \in Uploading /\ op[x].stage \in Uploading /\ op[o].id = op[x].id => o = x

(* A deletion is of a row that was there, and knows who took it since it    *)
(* counted; the file goes after the row.                                    *)
DeletionOK(o) ==
  /\ op[o].stage = "delete" =>
       row[op[o].id] # "none" /\ UsedBy(op[o].id) \subseteq op[o].taken
  /\ op[o].stage = "remove" => row[op[o].id] = "gone"

(* A cleanup knows the rows of its kind but those it has met as uploads, and*)
(* the uploads of its kind in progress know of it.                          *)
SweepOK(o) ==
  op[o].stage = "sweep" =>
    /\ \A id \in op[o].kind : row[id] = "row" /\ id \notin risky => id \in op[o].known
    /\ \A x \in Ops : op[x].stage \in Uploading /\ op[x].id \in op[o].kind => op[x].met

FileInv ==
  /\ TypeOK /\ RowHasFile /\ DistinctUploads
  /\ \A o \in Ops : UploadOK(o) /\ DeletionOK(o) /\ SweepOK(o)

-----------------------------------------------------------------------------
(* The parts of the state.                                                  *)

(* The fields of an operation at each of its stages.                        *)
LEMMA JobKinds ==
  ASSUME TypeOK, NEW o \in Ops
  PROVE  /\ op[o].stage \in Uploading =>
              op[o] \in [stage : Uploading, id : Ids, met : BOOLEAN]
         /\ op[o].stage \in {"delete", "remove"} =>
              op[o] \in [stage : {"delete", "remove"}, id : Ids, taken : SUBSET Holders]
         /\ op[o].stage = "sweep" =>
              op[o] \in [stage : {"sweep"}, kind : {Pictures, Templates}, known : SUBSET Ids]
  BY DEF TypeOK, Jobs, Idle, Uploading

(* An id is of one kind.                                                    *)
LEMMA KindIsThe ==
  ASSUME NEW id \in Ids, NEW K \in {Pictures, Templates}
  PROVE  Kind(id) \in {Pictures, Templates} /\ id \in Kind(id) /\ (id \in K => K = Kind(id)) /\ K \subseteq Ids
  BY FileAssumption DEF FileAssumption, Kind, Ids

(* A count of none means none.                                              *)
LEMMA NoneCounted ==
  ASSUME NEW id, Counted(id) = 0
  PROVE  UsedBy(id) = {}
<1>1. IsFiniteSet(UsedBy(id))
  BY FileAssumption, FS_Subset DEF FileAssumption, UsedBy
<1>2. QED
  BY <1>1, FS_EmptySet DEF Counted

(* An operation that ends, while rows and files stay, disturbs nothing.     *)
LEMMA EndStep ==
  ASSUME FileInv, NEW o \in Ops, End(o), UNCHANGED <<row, disk, held, risky>>
  PROVE  FileInv'
<1>1. op'[o] = Idle /\ (\A x \in Ops \ {o} : op'[x] = op[x]) /\ op' \in [Ops -> {Idle} \cup Jobs]
  BY DEF End, FileInv, TypeOK
<1>2. TypeOK' /\ RowHasFile'
  BY <1>1 DEF FileInv, TypeOK, RowHasFile
<1>3. DistinctUploads'
  BY <1>1 DEF FileInv, DistinctUploads, Idle, Uploading
<1>4. ASSUME NEW x \in Ops PROVE UploadOK(x)' /\ DeletionOK(x)' /\ SweepOK(x)'
  <2>1. CASE x = o
    BY <1>1, <2>1 DEF UploadOK, DeletionOK, SweepOK, Idle, Uploading
  <2>2. CASE x # o
    BY <1>1, <2>2 DEF FileInv, UploadOK, DeletionOK, SweepOK, UsedBy, Idle, Uploading
  <2>3. QED
    BY <2>1, <2>2
<1>5. QED
  BY <1>2, <1>3, <1>4 DEF FileInv

-----------------------------------------------------------------------------
(* Uploads.                                                                 *)

(* An upload takes an id that nobody has used.                              *)
LEMMA StartUploadStep ==
  ASSUME FileInv, NEW o \in Ops, NEW id \in Ids, StartUpload(o, id)
  PROVE  FileInv'
<1> DEFINE met == \E x \in Ops : op[x].stage = "sweep" /\ op[x].kind = Kind(id)
           job == [stage |-> "write", id |-> id, met |-> met]
<1>1. /\ row[id] = "none" /\ UNCHANGED <<row, held, risky>>
      /\ \A x \in Ops : op[x].stage \in Uploading => op[x].id # id
  BY DEF StartUpload, Uploading
<1>2. job \in Jobs
  BY DEF Jobs
<1>3. /\ op'[o] = job /\ (\A x \in Ops \ {o} : op'[x] = op[x])
      /\ op' \in [Ops -> {Idle} \cup Jobs]
  BY <1>2 DEF StartUpload, FileInv, TypeOK
<1>4. /\ disk'[id] = "partial" /\ \A i \in Ids \ {id} : disk'[i] = disk[i]
      /\ disk' \in [Ids -> {"none", "partial", "whole"}]
  BY DEF StartUpload, FileInv, TypeOK
<1>5. TypeOK' /\ RowHasFile'
  BY <1>1, <1>3, <1>4 DEF FileInv, TypeOK, RowHasFile
<1>6. DistinctUploads'
  BY <1>1, <1>3 DEF FileInv, DistinctUploads
<1>7. ASSUME NEW x \in Ops PROVE UploadOK(x)' /\ DeletionOK(x)'
  <2>1. CASE x = o
    BY <1>1, <1>3, <1>4, <2>1 DEF UploadOK, DeletionOK, Uploading
  <2>2. CASE x # o
    <3>1. op[x].stage \in Uploading => op[x].id \in Ids \ {id}
      BY <1>1, JobKinds DEF FileInv
    <3>2. QED
      BY <1>1, <1>3, <1>4, <2>2, <3>1 DEF FileInv, UploadOK, DeletionOK, UsedBy
  <2>3. QED
    BY <2>1, <2>2
<1>8. ASSUME NEW x \in Ops PROVE SweepOK(x)'
  <2>1. CASE x = o
    BY <1>3, <2>1 DEF SweepOK
  <2>2. CASE x # o
    <3>1. op'[x] = op[x] /\ SweepOK(x)
      BY <1>3, <2>2 DEF FileInv
    <3>2. ASSUME op[x].stage = "sweep", id \in op[x].kind PROVE met
      <4>1. op[x].kind \in {Pictures, Templates}
        BY <3>2, JobKinds DEF FileInv
      <4>2. QED
        BY <3>2, <4>1, KindIsThe
    <3> HIDE DEF met
    <3>3. QED
      BY <1>1, <1>3, <3>1, <3>2 DEF SweepOK
  <2>3. QED
    BY <2>1, <2>2
<1>9. QED
  BY <1>5, <1>6, <1>7, <1>8 DEF FileInv

(* An upload writes its file.                                               *)
LEMMA WriteStep ==
  ASSUME FileInv, NEW o \in Ops, Write(o)
  PROVE  FileInv'
<1>1. PICK id \in Ids : /\ op[o].id = id /\ op[o].stage = "write"
                        /\ op[o] \in [stage : Uploading, id : Ids, met : BOOLEAN]
                        /\ disk' = [disk EXCEPT ![id] = Written(id)]
                        /\ Go(o, "insert") /\ UNCHANGED <<row, held, risky>>
  BY JobKinds DEF FileInv, Write, Uploading
<1>2. /\ op'[o] = [op[o] EXCEPT !.stage = "insert"] /\ (\A x \in Ops \ {o} : op'[x] = op[x])
      /\ op' \in [Ops -> {Idle} \cup Jobs]
  BY <1>1 DEF Go, FileInv, TypeOK, Jobs
<1>3. op'[o].stage = "insert" /\ op'[o].id = id /\ op'[o].met = op[o].met
  BY <1>1, <1>2
<1>4. /\ disk'[id] = Written(id) /\ \A i \in Ids \ {id} : disk'[i] = disk[i]
      /\ disk' \in [Ids -> {"none", "partial", "whole"}]
  BY <1>1 DEF Written, FileInv, TypeOK
<1>5. row[id] = "none" /\ (~op[o].met => disk[id] = "partial")
  BY <1>1 DEF FileInv, UploadOK, Uploading
<1>6. TypeOK' /\ RowHasFile'
  BY <1>1, <1>2, <1>4, <1>5 DEF FileInv, TypeOK, RowHasFile
<1>7. DistinctUploads'
  BY <1>1, <1>2, <1>3 DEF FileInv, DistinctUploads, Uploading
<1>8. ASSUME NEW x \in Ops PROVE UploadOK(x)' /\ DeletionOK(x)'
  <2>1. CASE x = o
    BY <1>1, <1>3, <1>4, <1>5, <2>1 DEF UploadOK, DeletionOK, Written, Uploading
  <2>2. CASE x # o
    <3>1. op[x].stage \in Uploading => op[x].id \in Ids \ {id}
      BY <1>1, <2>2, JobKinds DEF FileInv, DistinctUploads, Uploading
    <3>2. QED
      BY <1>1, <1>2, <1>4, <2>2, <3>1 DEF FileInv, UploadOK, DeletionOK, UsedBy
  <2>3. QED
    BY <2>1, <2>2
<1>9. ASSUME NEW x \in Ops PROVE SweepOK(x)'
  BY <1>1, <1>2, <1>3 DEF FileInv, SweepOK, Uploading
<1>10. QED
  BY <1>6, <1>7, <1>8, <1>9 DEF FileInv

(* An upload inserts its row; its file is whole, or it has met a cleanup.   *)
LEMMA InsertStep ==
  ASSUME FileInv, NEW o \in Ops, Insert(o)
  PROVE  FileInv'
<1>1. PICK id \in Ids : /\ op[o].id = id /\ op[o].stage = "insert" /\ op[o].met \in BOOLEAN
                        /\ row' = [row EXCEPT ![id] = "row"]
                        /\ risky' = IF op[o].met THEN risky \cup {id} ELSE risky
                        /\ End(o) /\ UNCHANGED <<disk, held>>
  BY JobKinds DEF FileInv, Insert, InsertReady, Uploading
<1>2. op'[o] = Idle /\ (\A x \in Ops \ {o} : op'[x] = op[x]) /\ op' \in [Ops -> {Idle} \cup Jobs]
  BY <1>1 DEF End, FileInv, TypeOK
<1>3. /\ row'[id] = "row" /\ \A i \in Ids \ {id} : row'[i] = row[i]
      /\ row' \in [Ids -> {"none", "row", "gone"}]
  BY <1>1 DEF FileInv, TypeOK
<1>4. row[id] = "none" /\ (~op[o].met => disk[id] = "whole")
  BY <1>1 DEF FileInv, UploadOK, Uploading
<1>5. risky \subseteq risky' /\ (id \notin risky' => ~op[o].met)
  BY <1>1
<1>6. TypeOK' /\ RowHasFile'
  BY <1>1, <1>2, <1>3, <1>4, <1>5 DEF FileInv, TypeOK, RowHasFile
<1>7. DistinctUploads'
  BY <1>1, <1>2 DEF FileInv, DistinctUploads, Uploading, Idle
<1>8. ASSUME NEW x \in Ops PROVE UploadOK(x)' /\ DeletionOK(x)'
  <2>1. CASE x = o
    BY <1>2, <2>1 DEF UploadOK, DeletionOK, Idle, Uploading
  <2>2. CASE x # o
    <3>1. op[x].stage \in Uploading => op[x].id \in Ids \ {id}
      BY <1>1, <2>2, JobKinds DEF FileInv, DistinctUploads, Uploading
    <3>2. op[x].stage \in {"delete", "remove"} => op[x].id \in Ids
      BY JobKinds DEF FileInv
    <3>3. UploadOK(x) /\ DeletionOK(x) /\ op'[x] = op[x]
      BY <1>2, <2>2 DEF FileInv
    <3>4. UploadOK(x)'
      BY <1>1, <1>3, <3>1, <3>3 DEF UploadOK
    <3>5. DeletionOK(x)'
      BY <1>1, <1>3, <1>4, <3>2, <3>3 DEF DeletionOK, UsedBy
    <3>6. QED
      BY <3>4, <3>5
  <2>3. QED
    BY <2>1, <2>2
<1>9. ASSUME NEW x \in Ops PROVE SweepOK(x)'
  <2>1. CASE x = o
    BY <1>2, <2>1 DEF SweepOK, Idle
  <2>2. CASE x # o
    <3>1. op'[x] = op[x] /\ SweepOK(x)
      BY <1>2, <2>2 DEF FileInv
    <3>2. ASSUME op[x].stage = "sweep", id \in op[x].kind PROVE id \in risky'
      BY <1>1, <1>5, <3>1, <3>2 DEF SweepOK, Uploading
    <3>3. op[x].stage = "sweep" => op[x].kind \subseteq Ids
      BY JobKinds, KindIsThe DEF FileInv, Ids
    <3>4. QED
      BY <1>2, <1>3, <1>5, <3>1, <3>2, <3>3 DEF SweepOK, Idle, Uploading
  <2>3. QED
    BY <2>1, <2>2
<1>10. QED
  BY <1>6, <1>7, <1>8, <1>9 DEF FileInv

-----------------------------------------------------------------------------
(* Rows that refer to a picture or a template.                              *)

(* A profile takes a picture or a template that has a row.                  *)
LEMMA TakeStep ==
  ASSUME FileInv, NEW h \in Holders, NEW id \in Ids, Take(h, id)
  PROVE  FileInv'
<1>1. /\ row[id] = "row" /\ held' = [held EXCEPT ![h] = id] /\ UNCHANGED <<row, disk, risky>>
      /\ held'[h] = id /\ \A g \in Holders \ {h} : held'[g] = held[g]
  BY DEF Take, FileInv, TypeOK
<1>2. ASSUME NEW x \in Ops
      PROVE  /\ op'[x] \in {Idle} \cup Jobs /\ op'[x].stage = op[x].stage
             /\ op[x].stage \notin {"delete"} => op'[x] = op[x]
             /\ op[x].stage = "delete" =>
                  op'[x].id = op[x].id /\ op[x].taken \subseteq op'[x].taken
                    /\ (op[x].id = id => h \in op'[x].taken)
  <2>1. CASE op[x].stage = "delete" /\ op[x].id = id
    <3>1. op'[x] = [op[x] EXCEPT !.taken = @ \cup {h}]
      BY <2>1 DEF Take
    <3>2. op[x] \in [stage : {"delete", "remove"}, id : Ids, taken : SUBSET Holders]
      BY <2>1, JobKinds DEF FileInv
    <3>3. QED
      BY <2>1, <3>1, <3>2 DEF Jobs
  <2>2. CASE ~(op[x].stage = "delete" /\ op[x].id = id)
    BY <2>2 DEF Take, FileInv, TypeOK
  <2>3. QED
    BY <2>1, <2>2
<1>3. op' \in [Ops -> {Idle} \cup Jobs]
  BY <1>2 DEF Take
<1>4. TypeOK' /\ RowHasFile'
  <2>1. \A g \in Holders : held'[g] # None => row'[held'[g]] = "row"
    BY <1>1 DEF FileInv, TypeOK
  <2>2. QED
    BY <1>1, <1>3, <2>1 DEF FileInv, TypeOK, RowHasFile
<1>5. DistinctUploads'
  BY <1>2 DEF FileInv, DistinctUploads, Uploading
<1>6. ASSUME NEW x \in Ops PROVE UploadOK(x)' /\ DeletionOK(x)'
  <2>1. UploadOK(x) /\ DeletionOK(x)
    BY DEF FileInv
  <2>2. UploadOK(x)'
    BY <1>1, <1>2, <2>1 DEF UploadOK, Uploading
  <2>3. ASSUME op[x].stage = "delete"
        PROVE  UsedBy(op[x].id)' \subseteq op'[x].taken
    <3>1. \A g \in Holders : held'[g] = op[x].id => held[g] = op[x].id \/ (g = h /\ op[x].id = id)
      BY <1>1
    <3>2. QED
      BY <1>2, <2>1, <2>3, <3>1 DEF UsedBy, DeletionOK
  <2>4. DeletionOK(x)'
    BY <1>1, <1>2, <2>1, <2>3 DEF DeletionOK, UsedBy
  <2>5. QED
    BY <2>2, <2>4
<1>7. ASSUME NEW x \in Ops PROVE SweepOK(x)'
  <2>1. \A y \in Ops : op'[y].stage = op[y].stage /\ (op[y].stage \in Uploading \cup {"sweep"} => op'[y] = op[y])
    BY <1>2 DEF Uploading
  <2>2. QED
    BY <1>1, <2>1 DEF FileInv, SweepOK
<1>8. QED
  BY <1>4, <1>5, <1>6, <1>7 DEF FileInv

(* A profile lets go of what it took.                                       *)
LEMMA LetGoStep ==
  ASSUME FileInv, NEW h \in Holders, LetGo(h)
  PROVE  FileInv'
<1>1. UNCHANGED <<row, disk, op, risky>> /\ \A g \in Holders : held'[g] \in {held[g], None}
  BY DEF LetGo, FileInv, TypeOK
<1>2. held' \in [Holders -> Ids \cup {None}]
  BY DEF LetGo, FileInv, TypeOK
<1>3. TypeOK' /\ RowHasFile' /\ DistinctUploads'
  BY <1>1, <1>2 DEF FileInv, TypeOK, RowHasFile, DistinctUploads
<1>4. ASSUME NEW x \in Ops PROVE UploadOK(x)' /\ DeletionOK(x)' /\ SweepOK(x)'
  <2>1. ASSUME op[x].stage = "delete" PROVE UsedBy(op[x].id)' \subseteq UsedBy(op[x].id)
    <3>1. op[x].id # None
      BY <2>1, JobKinds, FileAssumption DEF FileInv, FileAssumption, Ids
    <3>2. QED
      BY <1>1, <3>1 DEF UsedBy
  <2>2. UploadOK(x)' /\ SweepOK(x)'
    BY <1>1 DEF FileInv, UploadOK, SweepOK
  <2>3. DeletionOK(x)'
    BY <1>1, <2>1 DEF FileInv, DeletionOK
  <2>4. QED
    BY <2>2, <2>3
<1>5. QED
  BY <1>3, <1>4 DEF FileInv

-----------------------------------------------------------------------------
(* Deletions.                                                               *)

(* A deletion counts who uses the row.                                      *)
LEMMA StartDeleteStep ==
  ASSUME FileInv, NEW o \in Ops, NEW id \in Ids, StartDelete(o, id)
  PROVE  FileInv'
<1> DEFINE job == [stage |-> "delete", id |-> id, taken |-> {}]
<1>1. row[id] = "row" /\ UsedBy(id) = {} /\ UNCHANGED <<row, disk, held, risky>>
  BY NoneCounted DEF StartDelete
<1>2. /\ op'[o] = job /\ (\A x \in Ops \ {o} : op'[x] = op[x])
      /\ op' \in [Ops -> {Idle} \cup Jobs]
  BY DEF StartDelete, FileInv, TypeOK, Jobs
<1>3. TypeOK' /\ RowHasFile' /\ DistinctUploads'
  BY <1>1, <1>2 DEF FileInv, TypeOK, RowHasFile, DistinctUploads, Uploading
<1>4. ASSUME NEW x \in Ops PROVE UploadOK(x)' /\ DeletionOK(x)' /\ SweepOK(x)'
  <2>1. CASE x = o
    BY <1>1, <1>2, <2>1 DEF UploadOK, DeletionOK, SweepOK, UsedBy, Uploading
  <2>2. CASE x # o
    BY <1>1, <1>2, <2>2 DEF FileInv, UploadOK, DeletionOK, SweepOK, UsedBy, Uploading
  <2>3. QED
    BY <2>1, <2>2
<1>5. QED
  BY <1>3, <1>4 DEF FileInv

(* A deletion removes the row, and with it the references of those that     *)
(* took it since the count.                                                 *)
LEMMA DeleteRowStep ==
  ASSUME FileInv, NEW o \in Ops, DeleteRow(o)
  PROVE  FileInv'
<1>1. PICK id \in Ids : /\ op[o].id = id /\ op[o].stage = "delete"
                        /\ op[o] \in [stage : {"delete", "remove"}, id : Ids, taken : SUBSET Holders]
                        /\ row' = [row EXCEPT ![id] = "gone"] /\ held' = SetNull(id)
                        /\ Go(o, "remove") /\ UNCHANGED <<disk, risky>>
  BY JobKinds DEF FileInv, DeleteRow
<1>2. /\ op'[o] = [op[o] EXCEPT !.stage = "remove"] /\ (\A x \in Ops \ {o} : op'[x] = op[x])
      /\ op' \in [Ops -> {Idle} \cup Jobs]
  BY <1>1 DEF Go, FileInv, TypeOK, Jobs
<1>3. op'[o].stage = "remove" /\ op'[o].id = id
  BY <1>1, <1>2
<1>4. /\ row'[id] = "gone" /\ \A i \in Ids \ {id} : row'[i] = row[i]
      /\ row' \in [Ids -> {"none", "row", "gone"}] /\ row[id] # "none"
  BY <1>1 DEF FileInv, TypeOK, DeletionOK
<1>5. /\ \A h \in Holders : held'[h] = IF held[h] = id THEN None ELSE held[h]
      /\ held' \in [Holders -> Ids \cup {None}]
  BY <1>1 DEF SetNull, FileInv, TypeOK
<1>6. TypeOK' /\ RowHasFile'
  <2>1. \A h \in Holders : held'[h] # None => row'[held'[h]] = "row"
    BY <1>4, <1>5 DEF FileInv, TypeOK
  <2>2. QED
    BY <1>1, <1>2, <1>4, <1>5, <2>1 DEF FileInv, TypeOK, RowHasFile
<1>7. DistinctUploads'
  BY <1>2, <1>3 DEF FileInv, DistinctUploads, Uploading
<1>8. ASSUME NEW x \in Ops PROVE UploadOK(x)' /\ DeletionOK(x)'
  <2>1. CASE x = o
    BY <1>3, <1>4, <2>1 DEF UploadOK, DeletionOK, Uploading
  <2>2. CASE x # o
    <3>1. op'[x] = op[x] /\ UploadOK(x) /\ DeletionOK(x)
      BY <1>2, <2>2 DEF FileInv
    <3>2. UploadOK(x)'
      <4>1. op[x].stage \in Uploading => op[x].id \in Ids \ {id}
        BY <1>4, <3>1, JobKinds DEF FileInv, UploadOK
      <4>2. QED
        BY <1>1, <1>4, <3>1, <4>1 DEF UploadOK
    <3>3. DeletionOK(x)'
      <4>1. op[x].stage \in {"delete", "remove"} => op[x].id \in Ids /\ op[x].id # None
        BY JobKinds, FileAssumption DEF FileInv, FileAssumption, Ids
      <4>2. op[x].stage = "delete" => UsedBy(op[x].id)' \subseteq UsedBy(op[x].id)
        BY <1>5, <3>1, <4>1 DEF UsedBy
      <4>3. QED
        BY <1>4, <3>1, <4>1, <4>2 DEF DeletionOK
    <3>4. QED
      BY <3>2, <3>3
  <2>3. QED
    BY <2>1, <2>2
<1>9. ASSUME NEW x \in Ops PROVE SweepOK(x)'
  <2>1. op[x].stage = "sweep" => op[x].kind \subseteq Ids
    BY JobKinds DEF FileInv, Ids
  <2>2. CASE x = o
    BY <1>3, <2>2 DEF SweepOK
  <2>3. CASE x # o
    BY <1>1, <1>2, <1>3, <1>4, <2>1, <2>3 DEF FileInv, SweepOK, Uploading
  <2>4. QED
    BY <2>2, <2>3
<1>10. QED
  BY <1>6, <1>7, <1>8, <1>9 DEF FileInv

(* A step that takes files away leaves those of rows and of uploads.        *)
LEMMA FilesGo ==
  ASSUME FileInv, UNCHANGED <<row, held, op, risky>>, NEW id \in Ids,
         disk' = [disk EXCEPT ![id] = "none"],
         row[id] = "row" => id \in risky,
         \A x \in Ops : op[x].stage \in Uploading /\ op[x].id = id => op[x].met
  PROVE  FileInv'
<1>1. /\ \A i \in Ids \ {id} : disk'[i] = disk[i]
      /\ disk' \in [Ids -> {"none", "partial", "whole"}]
  BY DEF FileInv, TypeOK
<1>2. TypeOK' /\ RowHasFile' /\ DistinctUploads'
  BY <1>1 DEF FileInv, TypeOK, RowHasFile, DistinctUploads
<1>3. ASSUME NEW x \in Ops PROVE UploadOK(x)' /\ DeletionOK(x)' /\ SweepOK(x)'
  <2>1. UploadOK(x)'
    <3>1. op[x].stage \in Uploading => op[x].id \in Ids
      BY JobKinds DEF FileInv
    <3>2. QED
      BY <1>1, <3>1 DEF FileInv, UploadOK
  <2>2. QED
    BY <2>1 DEF FileInv, DeletionOK, SweepOK, UsedBy
<1>4. QED
  BY <1>2, <1>3 DEF FileInv

(* A deletion removes the file of the row that is gone.                     *)
LEMMA RemoveStep ==
  ASSUME FileInv, NEW o \in Ops, Remove(o)
  PROVE  FileInv'
<1>1. PICK id \in Ids : /\ op[o].id = id /\ row[id] = "gone"
                        /\ disk' = [disk EXCEPT ![id] = "none"]
                        /\ End(o) /\ UNCHANGED <<row, held, risky>>
  BY JobKinds DEF FileInv, Remove, DeletionOK
<1>2. op'[o] = Idle /\ (\A x \in Ops \ {o} : op'[x] = op[x]) /\ op' \in [Ops -> {Idle} \cup Jobs]
  BY <1>1 DEF End, FileInv, TypeOK
<1>3. /\ \A i \in Ids \ {id} : disk'[i] = disk[i]
      /\ disk' \in [Ids -> {"none", "partial", "whole"}]
  BY <1>1 DEF FileInv, TypeOK
<1>4. TypeOK' /\ RowHasFile'
  BY <1>1, <1>2, <1>3 DEF FileInv, TypeOK, RowHasFile
<1>5. DistinctUploads'
  BY <1>2 DEF FileInv, DistinctUploads, Uploading, Idle
<1>6. ASSUME NEW x \in Ops PROVE UploadOK(x)' /\ DeletionOK(x)' /\ SweepOK(x)'
  <2>1. CASE x = o
    BY <1>2, <2>1 DEF UploadOK, DeletionOK, SweepOK, Idle, Uploading
  <2>2. CASE x # o
    <3>1. op[x].stage \in Uploading => op[x].id \in Ids \ {id}
      BY <1>1, JobKinds DEF FileInv, UploadOK
    <3>2. UploadOK(x)'
      BY <1>1, <1>2, <1>3, <2>2, <3>1 DEF FileInv, UploadOK
    <3>3. DeletionOK(x)' /\ SweepOK(x)'
      BY <1>1, <1>2, <2>2 DEF FileInv, DeletionOK, SweepOK, UsedBy, Idle, Uploading
    <3>4. QED
      BY <3>2, <3>3
  <2>3. QED
    BY <2>1, <2>2
<1>7. QED
  BY <1>4, <1>5, <1>6 DEF FileInv

-----------------------------------------------------------------------------
(* The cleanup.                                                             *)

(* Its listing of a kind begins with the names in the table.                *)
LEMMA PhaseStep ==
  ASSUME FileInv, NEW o \in Ops, op[o].stage \notin Uploading, NEW K \in {Pictures, Templates},
         Phase(o, K), UNCHANGED <<row, disk, held, risky>>
  PROVE  FileInv'
<1> DEFINE job == [stage |-> "sweep", kind |-> K, known |-> InTable(K)]
<1>1. InTable(K) \in SUBSET Ids /\ K \subseteq Ids /\ job \in Jobs
  BY KindIsThe DEF InTable, Ids, Jobs
<1>2. op'[o] = job
  BY DEF Phase
<1>3. ASSUME NEW x \in Ops \ {o}
      PROVE  /\ op'[x] \in {Idle} \cup Jobs /\ op'[x].stage = op[x].stage
             /\ op[x].stage \notin Uploading => op'[x] = op[x]
             /\ op[x].stage \in Uploading =>
                  op'[x].id = op[x].id /\ (op[x].met \/ op[x].id \in K => op'[x].met)
                    /\ (~op'[x].met => ~op[x].met)
  <2>1. CASE op[x].stage \in Uploading /\ op[x].id \in K
    <3>1. op'[x] = [op[x] EXCEPT !.met = TRUE]
      BY <2>1 DEF Phase, Uploading
    <3>2. op[x] \in [stage : Uploading, id : Ids, met : BOOLEAN]
      BY <2>1, JobKinds DEF FileInv
    <3>3. QED
      BY <2>1, <3>1, <3>2 DEF Jobs, Uploading
  <2>2. CASE ~(op[x].stage \in Uploading /\ op[x].id \in K)
    BY <2>2 DEF Phase, FileInv, TypeOK, Uploading
  <2>3. QED
    BY <2>1, <2>2
<1>4. op' \in [Ops -> {Idle} \cup Jobs]
  BY <1>1, <1>2, <1>3 DEF Phase
<1>5. TypeOK' /\ RowHasFile'
  BY <1>4 DEF FileInv, TypeOK, RowHasFile
<1>6. DistinctUploads'
  BY <1>2, <1>3 DEF FileInv, DistinctUploads, Uploading
<1>7. ASSUME NEW x \in Ops PROVE UploadOK(x)' /\ DeletionOK(x)' /\ SweepOK(x)'
  <2>1. CASE x = o
    <3>1. UploadOK(x)' /\ DeletionOK(x)'
      BY <1>2, <2>1 DEF UploadOK, DeletionOK, Uploading
    <3>2. op'[o].stage = "sweep" /\ op'[o].kind = K /\ op'[o].known = InTable(K)
      BY <1>2
    <3>3. \A id \in K : row[id] = "row" => id \in InTable(K)
      BY DEF InTable
    <3>4. \A y \in Ops : op'[y].stage \in Uploading /\ op'[y].id \in K => op'[y].met
      BY <1>3, <3>2 DEF Uploading
    <3>5. QED
      BY <2>1, <3>1, <3>2, <3>3, <3>4 DEF SweepOK
  <2>2. CASE x # o
    <3>1. UploadOK(x) /\ DeletionOK(x) /\ SweepOK(x)
      BY DEF FileInv
    <3>2. UploadOK(x)'
      BY <1>3, <2>2, <3>1 DEF UploadOK
    <3>3. DeletionOK(x)'
      BY <1>3, <2>2, <3>1 DEF DeletionOK, UsedBy, Uploading
    <3>4. SweepOK(x)'
      <4>1. op[x].stage = "sweep" => op'[x] = op[x]
        BY <1>3, <2>2 DEF Uploading
      <4>2. op'[x].stage = op[x].stage
        BY <1>3, <2>2
      <4>3. \A y \in Ops : op'[y].stage \in Uploading =>
              op[y].stage \in Uploading /\ op'[y].id = op[y].id /\ (op[y].met => op'[y].met)
        BY <1>2, <1>3 DEF Uploading
      <4>4. QED
        BY <3>1, <4>1, <4>2, <4>3 DEF SweepOK
    <3>5. QED
      BY <3>2, <3>3, <3>4
  <2>3. QED
    BY <2>1, <2>2
<1>8. QED
  BY <1>5, <1>6, <1>7 DEF FileInv

(* What it takes for an orphan has no row but one that has met it.          *)
LEMMA SweepStep ==
  ASSUME FileInv, NEW o \in Ops, Sweep(o)
  PROVE  FileInv'
<1>1. /\ op[o].stage = "sweep" /\ op[o].kind \subseteq Ids /\ SweepOK(o)
      /\ UNCHANGED <<row, held, op, risky>>
  BY JobKinds DEF FileInv, Sweep, Ids
<1>2. PICK id \in op[o].kind \ op[o].known : disk' = [disk EXCEPT ![id] = "none"]
  BY DEF Sweep
<1>3. /\ id \in Ids /\ (row[id] = "row" => id \in risky)
      /\ \A x \in Ops : op[x].stage \in Uploading /\ op[x].id = id => op[x].met
  BY <1>1, <1>2 DEF SweepOK
<1>4. QED
  BY <1>1, <1>2, <1>3, FilesGo

-----------------------------------------------------------------------------
(* The invariant and what follows from it.                                  *)

(* No rows and no files at the start.                                       *)
LEMMA InitInv == Init => FileInv
  BY DEF Init, FileInv, TypeOK, RowHasFile, DistinctUploads, UploadOK, DeletionOK, SweepOK, Idle,
         Uploading

(* The invariant is inductive.                                              *)
LEMMA NextInv == FileInv /\ [Next]_vars => FileInv'
<1> SUFFICES ASSUME FileInv, [Next]_vars PROVE FileInv'
  OBVIOUS
<1>1. ASSUME NEW o \in Ops, StartCleanup(o) PROVE FileInv'
  BY <1>1, PhaseStep DEF StartCleanup, Idle, Uploading
<1>2. ASSUME NEW o \in Ops, EndPhase(o) PROVE FileInv'
  <2>1. op[o].stage \notin Uploading /\ UNCHANGED <<row, disk, held, risky>>
    BY <1>2 DEF EndPhase, Uploading
  <2>2. CASE Phase(o, Templates)
    BY <2>1, <2>2, PhaseStep
  <2>3. CASE End(o)
    BY <2>1, <2>3, EndStep
  <2>4. QED
    BY <1>2, <2>2, <2>3 DEF EndPhase
<1>3. ASSUME NEW o \in Ops, Fail(o) PROVE FileInv'
  BY <1>3, EndStep DEF Fail
<1>4. CASE UNCHANGED vars
  <2>1. \A x \in Ops : UploadOK(x)' /\ DeletionOK(x)' /\ SweepOK(x)'
    BY <1>4 DEF vars, FileInv, UploadOK, DeletionOK, SweepOK, UsedBy
  <2>2. QED
    BY <1>4, <2>1 DEF vars, FileInv, TypeOK, RowHasFile, DistinctUploads
<1>5. QED
  BY <1>1, <1>2, <1>3, <1>4, StartUploadStep, WriteStep, InsertStep, TakeStep, LetGoStep,
     StartDeleteStep, DeleteRowStep, RemoveStep, SweepStep DEF Next

(* In every behaviour each operation knows the state of the file and the    *)
(* row it is about, or has met the operation that changed them.             *)
THEOREM FileInvariant == Spec => []FileInv
<1>1. QED
  BY InitInv, NextInv, PTL DEF Spec

(* Rows, files and references are what the tables and the disk allow: among *)
(* others, nothing refers to a row that is gone.                            *)
THEOREM FileTypeCorrect == Spec => []TypeOK
<1>1. FileInv => TypeOK
  BY DEF FileInv
<1>2. QED
  BY <1>1, FileInvariant, PTL

(* The picture or template of every row is on disk, whole, but for uploads  *)
(* that a cleanup of orphans overlapped: upload, delete and cleanup cannot  *)
(* take it away in any order, number or with any failure between.           *)
THEOREM RowsHaveFiles == Spec => []RowHasFile
<1>1. FileInv => RowHasFile
  BY DEF FileInv
<1>2. QED
  BY <1>1, FileInvariant, PTL

(* delete refuses what is in use: only pictures can go under a holder, and  *)
(* only one that took them after the counts.                                *)
THEOREM UsedRowsStay == Spec => InUseStays
<1> DEFINE Stays ==
      \A id \in Ids : row[id] = "row" /\ row'[id] = "gone" /\ UsedBy(id) # {} =>
        /\ id \in Pictures
        /\ \E o \in Ops : op[o].stage = "delete" /\ op[o].id = id /\ UsedBy(id) \subseteq op[o].taken
<1>1. ASSUME FileInv, [Next]_vars PROVE [Stays]_vars
  <2> SUFFICES ASSUME Next, NEW id \in Ids, row[id] = "row", row'[id] = "gone", UsedBy(id) # {}
               PROVE  /\ id \in Pictures
                      /\ \E o \in Ops : /\ op[o].stage = "delete" /\ op[o].id = id
                                        /\ UsedBy(id) \subseteq op[o].taken
    BY <1>1
  <2>1. PICK o \in Ops : DeleteRow(o)
    <3>1. ASSUME NEW o \in Ops, Insert(o) PROVE row'[id] # "gone"
      BY <1>1, <3>1 DEF Insert, FileInv, TypeOK
    <3>2. row' # row
      OBVIOUS
    <3>3. QED
      BY <3>1, <3>2 DEF Next, StartUpload, StartDelete, Write, Remove, StartCleanup, Sweep,
                        EndPhase, Fail, LetGo, Take
  <2>2. op[o].stage = "delete" /\ op[o].id = id
    BY <1>1, <2>1 DEF DeleteRow, FileInv, TypeOK
  <2>3. id \in Pictures
    BY <2>1, <2>2 DEF DeleteRow, Ids
  <2>4. UsedBy(id) \subseteq op[o].taken
    BY <1>1, <2>2 DEF FileInv, DeletionOK
  <2>5. QED
    BY <2>2, <2>3, <2>4
<1>2. QED
  BY <1>1, FileInvariant, PTL DEF Spec, InUseStays

=============================================================================
