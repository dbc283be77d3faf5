--------------------------- MODULE SourceSnapshots ---------------------------
(***************************************************************************)
(* Where a version's source and the screenshots of its checks are kept     *)
(* (storage/source.ts, storage/artifacts.ts): objects of a private bucket  *)
(* under keys that are never written twice, named by rows of the database. *)
(* An upload may be lost, arrive damaged or have its answer lost; nothing  *)
(* is named by a row before it has been read back, and everything is       *)
(* checked against its name whenever it is read.  A hash is modelled as    *)
(* what it is the hash of.                                                 *)
(***************************************************************************)
EXTENDS Naturals, FiniteSets, Sequences

CONSTANTS Paths, Texts,   \* names and contents of files; "bad" is a content that is refused
          MaxRevisions,   \* candidates, one revision id each
          MaxShots,       \* screenshots, one random id each
          None

Files == UNION {[ps -> Texts] : ps \in SUBSET Paths}
Inputs == UNION {[1..n -> Paths \X Texts] : n \in 0..2}
Damaged == <<>>           \* bytes that are no bundle of files

VARIABLES objects,        \* the bucket's source objects, by key
          built,          \* what each revision was built from
          step, reference,\* save: where it stands and the reference it has made
          verified,       \* this process's verified references
          rows,           \* nano.revisions: a reference each
          reviewed,       \* revisions whose review was started
          served,         \* the last source given out, with its revision
          images, shots   \* stored screenshots by id; artifacts a check may name
source == <<objects, built, step, reference, verified, rows, reviewed, served, images, shots>>
snapshot == <<objects, built, step, reference, verified, rows, reviewed, served>>

Init ==
    /\ objects = {} /\ built = [r \in 1..MaxRevisions |-> None]
    /\ step = "idle" /\ reference = None /\ verified = {}
    /\ rows = [r \in 1..MaxRevisions |-> None] /\ reviewed = {} /\ served = None
    /\ images = [i \in 1..MaxShots |-> None] /\ shots = [i \in 1..MaxShots |-> None]

-----------------------------------------------------------------------------
\* prepareSourceSnapshot: at least one file, each path once, every content legal text;
\* the files in the order of their paths, whatever order they came in.
prepareSourceSnapshot(input) ==
    IF /\ input # <<>>
       /\ \A i, j \in DOMAIN input : input[i][1] = input[j][1] => i = j
       /\ \A i \in DOMAIN input : input[i][2] # "bad"
    THEN [p \in {input[i][1] : i \in DOMAIN input} |->
             CHOOSE text \in Texts : \E i \in DOMAIN input : input[i] = <<p, text>>]
    ELSE None
\* The manifest gives the length and the hash of each file; the size is the whole's.
Bytes(files) == Cardinality(DOMAIN files)
Reference(r, files) ==
    [key |-> <<r, files>>, revision |-> r, sourceHash |-> files, bytes |-> Bytes(files)]
checkedReference(ref) == ref.key = <<ref.revision, ref.sourceHash>>

\* The body under a key, if there is one.
Bodies(key) == {o[2] : o \in {x \in objects : x[1] = key}}
\* load: an object whose length, files and hashes are those of its reference.
Loads(ref) ==
    /\ checkedReference(ref)
    /\ \E body \in Bodies(ref.key) :
           body # Damaged /\ Bytes(body) = ref.bytes /\ body = ref.sourceHash

-----------------------------------------------------------------------------
\* save: a candidate's files are prepared, under the revision id made for it.
Save ==
    /\ step = "idle"
    /\ \E r \in 1..MaxRevisions, input \in Inputs :
           /\ built[r] = None /\ \A s \in 1..(r - 1) : built[s] # None
           /\ prepareSourceSnapshot(input) # None
           /\ built' = [built EXCEPT ![r] = prepareSourceSnapshot(input)]
           /\ reference' = Reference(r, prepareSourceSnapshot(input))
    /\ step' = "upload"
    /\ UNCHANGED <<objects, verified, rows, reviewed, served, images, shots>>
\* upload, which overwrites nothing (upsert: false); an object that is there already is
\* no error.  What fails, or is not answered in time, may be stored all the same.
Stored(body) ==
    objects' = IF Bodies(reference.key) # {} THEN objects ELSE objects \union {<<reference.key, body>>}
Upload ==
    /\ step = "upload"
    /\ \/ UNCHANGED objects
       \/ \E body \in {reference.sourceHash, Damaged} : Stored(body)
    /\ step' \in (IF objects' = objects /\ Bodies(reference.key) = {} THEN {"failed"}
                  ELSE {"again", "read", "failed"})
    /\ UNCHANGED <<built, reference, verified, rows, reviewed, served, images, shots>>
\* The client sends the request once more.
UploadAgain ==
    /\ step = "again" /\ step' = "upload"
    /\ UNCHANGED <<objects, built, reference, verified, rows, reviewed, served, images, shots>>
\* It is read back before the reference counts as verified.
ReadBack ==
    /\ step = "read"
    /\ \/ Loads(reference) /\ step' = "save" /\ verified' = verified \union {reference}
       \/ step' = "failed" /\ UNCHANGED verified
    /\ UNCHANGED <<objects, built, reference, rows, reviewed, served, images, shots>>
\* saveCandidate takes a reference that this process has verified.
assertVerifiedSourceSnapshot(ref) == ref \in verified /\ checkedReference(ref)
saveCandidate ==
    /\ step = "save" /\ assertVerifiedSourceSnapshot(reference)
    /\ \/ rows' = [rows EXCEPT ![reference.revision] = reference]
       \/ UNCHANGED rows
    /\ step' = "idle" /\ reference' = None
    /\ UNCHANGED <<objects, built, verified, reviewed, served, images, shots>>
Fail ==
    /\ step = "failed" /\ step' = "idle" /\ reference' = None
    /\ UNCHANGED <<objects, built, verified, rows, reviewed, served, images, shots>>

\* A reader of a saved version: the file view, a restore, a rollback, the next attempt.
Load(r) ==
    /\ rows[r] # None /\ Loads(rows[r])
    /\ \E body \in Bodies(rows[r].key) : served' = <<r, body>>
    /\ UNCHANGED <<objects, built, step, reference, verified, rows, reviewed, images, shots>>
\* verify: read once more, by a process that may not be the one that saved it.
Verify(r) ==
    /\ rows[r] # None /\ Loads(rows[r]) /\ verified' = verified \union {rows[r]}
    /\ UNCHANGED <<objects, built, step, reference, rows, reviewed, served, images, shots>>
Review(r) ==
    /\ rows[r] # None /\ assertVerifiedSourceSnapshot(rows[r]) /\ reviewed' = reviewed \union {r}
    /\ UNCHANGED <<objects, built, step, reference, verified, rows, served, images, shots>>
Restart ==
    /\ verified # {} \/ step # "idle"
    /\ verified' = {} /\ step' = "idle" /\ reference' = None
    /\ UNCHANGED <<objects, built, rows, reviewed, served, images, shots>>

-----------------------------------------------------------------------------
\* A check's screenshot: stored under an id of its own, read back and compared with its
\* hash before the check may name it; a session that has ended leaves the object only.
SaveArtifact(i) ==
    /\ images[i] = None /\ \A j \in 1..(i - 1) : images[j] # None
    /\ \E image \in Texts \ {"bad"} : \E body \in {image, "bad"} :
           /\ images' = [images EXCEPT ![i] = body]
           /\ \/ body = image /\ shots' = [shots EXCEPT ![i] = image]
              \/ UNCHANGED shots
    /\ UNCHANGED snapshot

Next ==
    \/ Save \/ Upload \/ UploadAgain \/ ReadBack \/ saveCandidate \/ Fail \/ Restart
    \/ \E r \in 1..MaxRevisions : Load(r) \/ Verify(r) \/ Review(r)
    \/ \E i \in 1..MaxShots : SaveArtifact(i)

-----------------------------------------------------------------------------
SourceTypeOK ==
    /\ step \in {"idle", "upload", "again", "read", "save", "failed"}
    /\ (reference = None) = (step = "idle")
    /\ \A o \in objects : o[2] \in Files \union {Damaged}
    /\ reviewed \subseteq 1..MaxRevisions
    /\ \A r \in 1..MaxRevisions : built[r] \in Files \union {None}

\* A version stays what was built: the object that a row names is there and whole,
\* through uploads that were damaged, repeated or not answered; what a reader was given
\* and what a review judges is the source that was built; a screenshot that a check
\* names can be shown.
SourceIsKept ==
    /\ \A r \in 1..MaxRevisions :
           rows[r] # None => Bodies(rows[r].key) = {built[r]} /\ rows[r].sourceHash = built[r]
    /\ \A r \in reviewed : rows[r] # None
    /\ served # None => served[2] = built[served[1]]
    /\ \A i \in 1..MaxShots : shots[i] # None => images[i] = shots[i]
=============================================================================
