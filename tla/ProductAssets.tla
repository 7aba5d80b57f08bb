--------------------------- MODULE ProductAssets ----------------------------
(***************************************************************************)
(* The files and the cover photo of one product: the upload control        *)
(* (components/seller/file-dropzone.tsx), the browser's steps              *)
(* (seller/upload-client.ts) and the rows (seller/asset-service.ts).       *)
(*                                                                         *)
(* Every page uploads its items one at a time: presign, PUT to storage,    *)
(* attach.  A page that loses the answer of its attach call shows an error *)
(* and goes on, while the server may still be at work.  All items belong   *)
(* to one new version of a published product.                              *)
(***************************************************************************)
EXTENDS Naturals, Sequences, FiniteSets

CONSTANTS
  UploadPages,       \* open pages with an upload control
  Items,       \* files the seller picks
  CoverCalls   \* calls of setCoverImage; each uploaded one object

\* Every upload has a storage key of its own.
ASSUME AssetsAssumption == Items \cap CoverCalls = {}

VARIABLES
  queue,       \* the items each page has still to upload, in order
  state,       \* what the page shows of each item
  picked,      \* the pages' items in the order they were picked
  retried,     \* items whose Retry was pressed
  attach,      \* attachProductFile for each item
  version,     \* is the ProductVersion row there?
  announced,   \* times notifyNewVersion was called
  rows,        \* ProductFile rows in the order they were created
  covers,      \* ProductImage rows, named by the call that made them
  objects,     \* objects in storage
  coverCall    \* where each setCoverImage stands, and what it read

pageVars   == <<queue, state, picked, retried>>
fileVars   == <<attach, version, announced, rows>>
coverVars  == <<covers, coverCall>>
assetVars  == <<pageVars, fileVars, coverVars, objects>>

Shown == {"none", "queued", "presign", "put", "attach", "done", "error"}
InSeq(i, q) == \E n \in DOMAIN q : q[n] = i

AssetsTypeOK ==
  /\ queue \in [UploadPages -> Seq(Items)]
  /\ state \in [Items -> Shown]
  /\ picked \in [UploadPages -> Seq(Items)]
  /\ retried \subseteq Items
  /\ version \in BOOLEAN /\ announced \in Nat
  /\ rows \in Seq(Items) /\ (rows # <<>> => version)
  /\ covers \subseteq CoverCalls
  /\ objects \subseteq CoverCalls \cup Items

AssetsInit ==
  /\ queue = [p \in UploadPages |-> <<>>]
  /\ state = [i \in Items |-> "none"]
  /\ picked = [p \in UploadPages |-> <<>>]
  /\ retried = {}
  /\ attach = [i \in Items |-> "idle"]
  /\ version = FALSE /\ announced = 0
  /\ rows = <<>>
  /\ covers = {} /\ objects = {}
  /\ coverCall = [c \in CoverCalls |-> [at |-> "idle"]]

Show(i, s) == state' = [state EXCEPT ![i] = s]
AttachAt(i, s) == attach' = [attach EXCEPT ![i] = s]
-----------------------------------------------------------------------------
(* The page.                                                               *)

Pick(p, i) ==
  /\ state[i] = "none"
  /\ queue' = [queue EXCEPT ![p] = Append(@, i)]
  /\ picked' = [picked EXCEPT ![p] = Append(@, i)]
  /\ Show(i, "queued")
  /\ UNCHANGED <<retried, fileVars, coverVars, objects>>

\* The Retry button of a failed item queues it again (once in the model, and
\* only after the server has let go of it).
Retry(p, i) ==
  /\ state[i] = "error" /\ i \notin retried
  /\ InSeq(i, picked[p])
  /\ attach[i] \in {"idle", "saved", "failed"}
  /\ retried' = retried \cup {i}
  /\ queue' = [queue EXCEPT ![p] = Append(@, i)]
  /\ Show(i, "queued")
  /\ AttachAt(i, "idle")
  /\ UNCHANGED <<picked, version, announced, rows, coverVars, objects>>

\* "Files upload one at a time, in the order chosen."
May(p, i) == queue[p] # <<>> /\ Head(queue[p]) = i /\ state[i] = "queued"

Start(p, i) ==
  /\ May(p, i)
  /\ Show(i, "presign")
  /\ UNCHANGED <<queue, picked, retried, fileVars, coverVars, objects>>

Presigned(i) ==
  /\ state[i] = "presign"
  /\ Show(i, "put")
  /\ UNCHANGED <<queue, picked, retried, fileVars, coverVars, objects>>

Put(i) ==
  /\ state[i] = "put"
  /\ objects' = objects \cup {i}
  /\ Show(i, "attach")
  /\ AttachAt(i, "lookup")
  /\ UNCHANGED <<queue, picked, retried, version, announced, rows, coverVars>>

\* The promise at the head of the page's chain is settled.
Leave(i) ==
  queue' = [p \in UploadPages |->
    IF queue[p] # <<>> /\ Head(queue[p]) = i THEN Tail(queue[p]) ELSE queue[p]]

Done(i) ==
  /\ state[i] = "attach" /\ attach[i] = "saved"
  /\ Show(i, "done") /\ Leave(i)
  /\ UNCHANGED <<picked, retried, fileVars, coverVars, objects>>

\* A step fails, or its answer is lost.
Fail(i) ==
  /\ state[i] \in {"presign", "put", "attach"}
  /\ Show(i, "error") /\ Leave(i)
  /\ UNCHANGED <<picked, retried, fileVars, coverVars, objects>>
-----------------------------------------------------------------------------
(* attachProductFile.                                                      *)

FindVersion(i) ==
  /\ attach[i] = "lookup"
  /\ AttachAt(i, IF version THEN "update" ELSE "create")
  /\ UNCHANGED <<pageVars, version, announced, rows, coverVars, objects>>

UpdateVersion(i) ==
  /\ attach[i] = "update"
  /\ AttachAt(i, "insert")
  /\ UNCHANGED <<pageVars, version, announced, rows, coverVars, objects>>

\* Of two calls that create one version the unique key fails the second.
CreateVersion(i) ==
  /\ attach[i] = "create"
  /\ \/ /\ ~version
        /\ version' = TRUE /\ announced' = announced + 1 /\ AttachAt(i, "insert")
     \/ /\ version
        /\ AttachAt(i, "failed")
        /\ UNCHANGED <<version, announced>>
  /\ UNCHANGED <<pageVars, rows, coverVars, objects>>

InsertFile(i) ==
  /\ attach[i] = "insert"
  /\ rows' = Append(rows, i)
  /\ AttachAt(i, "saved")
  /\ UNCHANGED <<pageVars, version, announced, coverVars, objects>>

ServerFails(i) ==
  /\ attach[i] \in {"lookup", "update", "create", "insert"}
  /\ AttachAt(i, "failed")
  /\ UNCHANGED <<pageVars, version, announced, rows, coverVars, objects>>
-----------------------------------------------------------------------------
(* setCoverImage.                                                          *)

Goes(c, to) == coverCall' = [coverCall EXCEPT ![c] = to]

\* The browser has uploaded the object; the rows it replaces are read.
ReadCovers(c) ==
  /\ coverCall[c].at = "idle"
  /\ objects' = objects \cup {c}
  /\ Goes(c, [at |-> "read", previous |-> covers])
  /\ UNCHANGED <<pageVars, fileVars, covers>>

\* The transaction (READ COMMITTED) begins: its deleteMany sees the rows
\* committed so far, ...
BeginCover(c) ==
  /\ coverCall[c].at = "read"
  /\ Goes(c, [at |-> "tx", previous |-> coverCall[c].previous, deleting |-> covers])
  /\ UNCHANGED <<pageVars, fileVars, covers, objects>>

\* ... and no row that was committed since.
CommitCover(c) ==
  /\ coverCall[c].at = "tx"
  /\ covers' = (covers \ coverCall[c].deleting) \cup {c}
  /\ Goes(c, [at |-> "cleanup", previous |-> coverCall[c].previous])
  /\ UNCHANGED <<pageVars, fileVars, objects>>

\* The database fails before the commit: nothing is cleaned up.
FailCover(c) ==
  /\ coverCall[c].at \in {"read", "tx"}
  /\ Goes(c, [at |-> "done"])
  /\ UNCHANGED <<pageVars, fileVars, covers, objects>>

\* Mutant: the replaced objects are deleted before the transaction.
CleanUpFirst(c) ==
  /\ coverCall[c].at \in {"read", "cleanup"}
  /\ \E o \in coverCall[c].previous :
       /\ objects' = objects \ {o}
       /\ Goes(c, [coverCall[c] EXCEPT !.previous = @ \ {o}])
  /\ UNCHANGED <<pageVars, fileVars, covers>>

\* Each replaced object is deleted, or storage fails and it stays.
CleanUp(c) ==
  /\ coverCall[c].at = "cleanup"
  /\ \E o \in coverCall[c].previous :
       /\ objects' \in {objects \ {o}, objects}
       /\ Goes(c, [coverCall[c] EXCEPT !.previous = @ \ {o}])
  /\ UNCHANGED <<pageVars, fileVars, covers>>
-----------------------------------------------------------------------------
AssetsNext ==
  \/ \E p \in UploadPages, i \in Items : Pick(p, i) \/ Retry(p, i) \/ Start(p, i)
  \/ \E i \in Items :
       \/ Presigned(i) \/ Put(i) \/ Done(i) \/ Fail(i)
       \/ FindVersion(i) \/ UpdateVersion(i) \/ CreateVersion(i)
       \/ InsertFile(i) \/ ServerFails(i)
  \/ \E c \in CoverCalls :
       \/ ReadCovers(c) \/ BeginCover(c) \/ CommitCover(c) \/ FailCover(c)
       \/ CleanUp(c)

AssetsSpec == AssetsInit /\ [][AssetsNext]_assetVars
-----------------------------------------------------------------------------
(* Properties.                                                             *)

\* Followers hear of a new version once, although two pages attach its first
\* files at the same time.
AnnouncedOnce == announced <= 1

\* "Buyers download exactly what you upload here": what a page shows as done
\* is in storage and in a row.
DoneIsDownloadable ==
  \A i \in Items : state[i] = "done" => i \in objects /\ InSeq(i, rows)

Row(i) == CHOOSE n \in DOMAIN rows : rows[n] = i

\* "Files upload one at a time, in the order chosen": the rows of a page's
\* items that went through at once are in the order of the page, although an
\* item whose answer was lost may still be under way when the next starts.
RowsInOrder ==
  \A p \in UploadPages : \A m, n \in DOMAIN picked[p] :
    LET i == picked[p][m]
        j == picked[p][n]
    IN  m < n /\ {i, j} \cap retried = {} /\ state[i] = "done"
          /\ state[j] = "done"
        => Row(i) < Row(j)

\* No row of a cover photo points at an object that was deleted, although two
\* calls may replace the photo at once and each deletes what it read.
CoverHasObject == covers \subseteq objects

\* The control, the rows and storage agree in every state.
AssetsInv ==
  AssetsTypeOK /\ AnnouncedOnce /\ DoneIsDownloadable /\ RowsInOrder
    /\ CoverHasObject

-----------------------------------------------------------------------------
(* A sentence of the code that its behaviour contradicts.                  *)

\* The cover is the row at position 0: "there is exactly one at a time".
OneCover == Cardinality(covers) <= 1
=============================================================================
