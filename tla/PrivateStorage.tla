--------------------------- MODULE PrivateStorage ---------------------------
(***************************************************************************)
(* How the program replaces and reads one small file of its own: run       *)
(* reports, lifecycle artifacts, locks and registries.  A writer fills a   *)
(* temporary file under a random name, makes its content durable and       *)
(* renames it over the file; safe_write_bytes_at makes the directory       *)
(* durable too before it returns, the extension store's _atomic_json does  *)
(* not.  A reader holds the file it opened to the name it opened.          *)
(*                                                                         *)
(* The directory is the sequence of files the name has stood for: each     *)
(* rename appends one, and a power loss keeps a prefix that contains at    *)
(* least what was made durable.  A file whose content was not made durable *)
(* may lose any part of it.  Content is a number of parts.                 *)
(***************************************************************************)
EXTENDS Naturals, Sequences, SequencesExt

CONSTANTS Writers,      \* calls that replace the file, each with a content of its own
          Settling,     \* those of them that make the directory durable
          Readers,      \* calls that read it
          Parts         \* parts of a content (writes of os.write, reads of os.read)

ASSUME StorageAssumption ==
    /\ Settling \subseteq Writers /\ Writers \cap Readers = {}
    /\ "old" \notin Writers /\ Parts \in Nat \ {0}

VARIABLES
    published,      \* the files the name has stood for, in order
    settled,        \* how many of them no power loss takes back
    temporary,      \* the writers whose temporary file is in the directory
    content,        \* the parts each file holds
    durable,        \* the files whose content was made durable
    doing,           \* where each call is
    held            \* the file a reader has looked up, and the parts it read of it

disk == <<published, settled, temporary, content, durable>>
storageVars == <<disk, doing, held>>

Files == Writers \cup {"old"}
Current == Last(published)

StorageInit ==
    /\ published = <<"old">> /\ settled = 1 /\ temporary = {}
    /\ content = [f \in Files |-> IF f = "old" THEN Parts ELSE 0] /\ durable = {"old"}
    /\ doing = [p \in Writers \cup Readers |-> "idle"]
    /\ held = [r \in Readers |-> [file |-> "old", parts |-> 0]]

Moves(p, from, to) == doing[p] = from /\ doing' = [doing EXCEPT ![p] = to]

-----------------------------------------------------------------------------
(* Writers. *)

\* The temporary file is created exclusively, under a name of its own.
Create(w) ==
    /\ Moves(w, "idle", "filling")
    /\ temporary' = temporary \cup {w}
    /\ UNCHANGED <<published, settled, content, durable, held>>

Fill(w) ==
    /\ doing[w] = "filling" /\ content[w] < Parts
    /\ content' = [content EXCEPT ![w] = @ + 1]
    /\ UNCHANGED <<published, settled, temporary, durable, doing, held>>

\* MUTANT: the content is not made durable before the rename.
FlushNothing(w) ==
    /\ content[w] = Parts /\ Moves(w, "filling", "filled")
    /\ UNCHANGED <<disk, held>>

Flush(w) ==
    /\ content[w] = Parts /\ Moves(w, "filling", "filled")
    /\ durable' = durable \cup {w}
    /\ UNCHANGED <<published, settled, temporary, content, held>>

Replace(w) ==
    /\ Moves(w, "filled", IF w \in Settling THEN "replaced" ELSE "returned")
    /\ published' = Append(published, w)
    /\ temporary' = temporary \ {w}
    /\ UNCHANGED <<settled, content, durable, held>>

Settle(w) ==
    /\ Moves(w, "replaced", "returned")
    /\ settled' = Len(published)
    /\ UNCHANGED <<published, temporary, content, durable, held>>

\* Any call of the operating system may fail; the temporary file is removed
\* and the error raised.  A failure to settle comes after the rename.
Fail(w) ==
    /\ \E step \in {"filling", "filled", "replaced"} : Moves(w, step, "raised")
    /\ temporary' = temporary \ {w}
    /\ UNCHANGED <<published, settled, content, durable, held>>

-----------------------------------------------------------------------------
(* Readers. *)

Look(r) ==
    /\ Moves(r, "idle", "looked")
    /\ held' = [held EXCEPT ![r] = [file |-> Current, parts |-> 0]]
    /\ UNCHANGED disk

\* The file opened must be the one looked up.
OpenFile(r) ==
    /\ Moves(r, "looked", IF Current = held[r].file THEN "reading" ELSE "refused")
    /\ UNCHANGED <<disk, held>>

ReadPart(r) ==
    /\ doing[r] = "reading" /\ held[r].parts < content[held[r].file]
    /\ held' = [held EXCEPT ![r].parts = @ + 1]
    /\ UNCHANGED <<disk, doing>>

\* A file whose name was given to another while it was read has no link left.
Check(r) ==
    /\ held[r].parts = content[held[r].file]
    /\ Moves(r, "reading", IF Current = held[r].file THEN "read" ELSE "refused")
    /\ UNCHANGED <<disk, held>>

-----------------------------------------------------------------------------
\* A crash of the process leaves its temporary file behind.
StorageCrash(p) ==
    /\ doing[p] \notin {"idle", "returned", "raised", "read", "refused", "crashed"}
    /\ doing' = [doing EXCEPT ![p] = "crashed"]
    /\ UNCHANGED <<disk, held>>

InFlight == {p \in DOMAIN doing : doing[p] \notin {"idle", "returned", "raised", "read", "refused"}}

PowerLoss ==
    /\ \E kept \in settled .. Len(published) :
          /\ published' = SubSeq(published, 1, kept)
          /\ settled' = kept
    /\ \E left \in [Files -> 0 .. Parts] :
          /\ \A f \in Files : left[f] <= content[f] /\ (f \in durable => left[f] = content[f])
          /\ content' = left
    \* A rename taken back brings the temporary file back.
    /\ temporary' \in SUBSET (temporary \cup ((ToSet(published) \ ToSet(published')) \ {"old"}))
    /\ doing' = [p \in DOMAIN doing |-> IF p \in InFlight THEN "crashed" ELSE doing[p]]
    /\ UNCHANGED <<durable, held>>

StorageNext ==
    \/ \E w \in Writers : Create(w) \/ Fill(w) \/ Flush(w) \/ Replace(w) \/ Settle(w) \/ Fail(w) \/ StorageCrash(w)
    \/ \E r \in Readers : Look(r) \/ OpenFile(r) \/ ReadPart(r) \/ Check(r) \/ StorageCrash(r)
    \/ PowerLoss

StorageSpec == StorageInit /\ [][StorageNext]_storageVars

-----------------------------------------------------------------------------
StorageTypeOK ==
    /\ ToSet(published) \subseteq Files /\ settled \in 1 .. Len(published)
    /\ temporary \subseteq Writers /\ durable \subseteq Files
    /\ content \in [Files -> 0 .. Parts]
    /\ \A r \in Readers : held[r].file \in Files /\ held[r].parts \in 0 .. Parts

(* Whatever fails and whenever, the file is whole: the old content or one   *)
(* writer's, never a part of one.                                           *)
NeverTorn == content[Current] = Parts

(* A replacement that was reported to its caller and made durable is not    *)
(* taken back by a power loss, though a later writer may replace it.        *)
ReportedIsDurable == \A w \in Settling : doing[w] = "returned" => w \in ToSet(published)

(* What a reader was given is the whole of one content. *)
ReadIsWhole == \A r \in Readers : doing[r] = "read" => held[r].parts = Parts

(* The file as every caller may rely on it. *)
StorageSafe == StorageTypeOK /\ NeverTorn /\ ReportedIsDurable /\ ReadIsWhole
=============================================================================
