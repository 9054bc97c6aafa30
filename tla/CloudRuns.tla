----------------------------- MODULE CloudRuns -----------------------------
(***************************************************************************)
(* The hosted runs of sanka_cli/commands/cloud.py and the certificates of  *)
(* sanka_cli/certificates.py, as scripts like those of CloudMigrate.       *)
(*                                                                         *)
(* A case c holds the command, the options that are malformed, what is on  *)
(* disk, what the service answers and what the operator answers.  A        *)
(* content stands for its bytes and its digest.                            *)
(***************************************************************************)
EXTENDS CloudMigrate

CONSTANTS
    SourceBytes,        \* the largest source archive
    ArtifactBytes       \* the largest artifact that is downloaded

(* Options are checked before anything is read or sent. *)
Malformed(c, options) == Refuse(c.malformed \cap options # {})
ConfirmUnlessYes(c) == If(~c.yes, Confirm(c))

(* A request that queues a paid run: its source, and for a repair or a     *)
(* certification the run and the candidate it is about.                    *)
Queue(source, parent, candidate) ==
    Sends("POST", "runs", parent, candidate, TRUE) @@ [source |-> source]
Write(content) == [kind |-> "write", content |-> content]

(* upload: the archive is read once, checked, confirmed by its digest and  *)
(* sent; what the service says it kept has to be that.                     *)
Upload(c) ==
    Malformed(c, {"--workspace", "--revision"})
    \o Refuse(c.archive.size \notin 1 .. SourceBytes) \o Refuse(~c.archive.zip)
    \o ConfirmUnlessYes(c)
    \o <<Sends("POST", "sources", c.revision, c.archive.content, FALSE)>>
    \o Refuse(c.kept.content # c.archive.content)
    \o Refuse(c.revision # None /\ c.kept.revision # c.revision)

(* run: the credits are held for the source and digest that are given. *)
StartRun(c) ==
    Malformed(c, {"--workspace", "--sha256", "--idempotency-key", "--settings-module"})
    \o ConfirmUnlessYes(c)
    \o <<Queue(c.source, None, None)>>

-----------------------------------------------------------------------------
(* repair and certify: a run's pinned source and one of its outputs.       *)

(* The first wrong answer of the service stops: another run, a status that *)
(* does not allow it, an output that is not kept, no pinned source.        *)
Retained(c, candidate) ==
    \E k \in DOMAIN c.manifest : c.manifest[k].name = "output.zip" /\ c.manifest[k].content = candidate

ParentRead(c, statuses, pinned) ==
    <<Get("run", c.run)>>
    \o Refuse(c.parent.id # c.run \/ c.parent.status \notin statuses)
    \o <<Get("artifacts", c.run)>>
    \o Refuse(~Retained(c, c.candidate))
    \o Refuse(\E field \in pinned : c.parent.request[field] = None)

(* 1 to 20 different application files. *)
PathsLegal(paths) ==
    /\ Len(paths) \in 1 .. 20
    /\ Cardinality(Range(paths)) = Len(paths)
    /\ \A k \in DOMAIN paths : paths[k].legal

Repair(c) ==
    Malformed(c, {"--workspace", "--sha256", "--idempotency-key"})
    \o Refuse(~PathsLegal(c.paths))
    \o ParentRead(c, {"failed"}, {"source"})
    \o ConfirmUnlessYes(c)
    \o <<Queue(c.parent.request.source, c.run, c.candidate)>>

(* load_scenarios: 1 to 50 requests of different ids, each within its own  *)
(* limits; a GET has no body.                                              *)
ScenariosLegal(cases) ==
    /\ Len(cases) \in 1 .. 50
    /\ \A k \in DOMAIN cases :
         /\ cases[k].local /\ cases[k].method \in {"GET", "POST", "PUT", "PATCH", "DELETE"}
         /\ \A j \in DOMAIN cases : cases[j].id = cases[k].id => j = k
         /\ cases[k].method = "GET" => ~cases[k].body

Certify(c) ==
    Malformed(c, {"--workspace", "--sha256", "--idempotency-key"})
    \o Refuse(~ScenariosLegal(c.scenarios))
    \o ParentRead(c, {"succeeded", "failed", "cancelled"}, {"source", "settings"})
    \o ConfirmUnlessYes(c)
    \o <<Queue(c.parent.request.source, c.run, c.candidate)>>

-----------------------------------------------------------------------------
(* Certificates.                                                           *)

(* An existing file or link is refused first; the exclusive open fails on  *)
(* one that appeared since.                                                *)
Free(c) == Refuse(c.exists)
WriteNew(c, content) == If(c.appears, <<Stop("failed")>>) \o <<Write(content)>>

Certificate(c) ==
    If(c.saves, Free(c)) \o Malformed(c, {"--workspace"})
    \o <<Get("certificate", c.run)>>
    \o If(c.saves, WriteNew(c, c.current.certificate))

(* verify_certificate: a known format and issuer, exactly one trusted key  *)
(* of that id, and its signature over the payload.                         *)
Trusted(certificate, keys) == {k \in DOMAIN keys : keys[k].id = certificate.key}
SignatureHolds(certificate, keys) ==
    /\ certificate.supported
    /\ Cardinality(Trusted(certificate, keys)) = 1
    /\ \A k \in Trusted(certificate, keys) :
         keys[k].ed25519 /\ certificate.signature = [by |-> keys[k].material, over |-> certificate.payload]

(* Online the keys are the service's, and the certificate it holds now has *)
(* to be this one and not revoked.                                         *)
CertificateVerify(c) ==
    Refuse(c.online = c.offline)
    \o If(c.online, Malformed(c, {"--workspace"}) \o <<Get("certificate-keys", None)>>)
    \o Refuse(~SignatureHolds(c.document, c.keys))
    \o If(c.online, <<Get("certificate", c.document.payload)>>
                    \o Refuse(c.current.certificate # c.document) \o Refuse(c.current.revoked))

CertificateRevoke(c) ==
    Malformed(c, {"--workspace", "--reason"})
    \o ConfirmUnlessYes(c)
    \o <<Post("revoke", c.run)>>

-----------------------------------------------------------------------------
(* download: the artifact has the size and digest of the manifest read     *)
(* before it, and is written to a new file.                                *)

Listed(c) == {k \in DOMAIN c.manifest : c.manifest[k].name = c.artifact}
Metadata(c) == c.manifest[Min(Listed(c))]

AsListed(c) == c.received.size = Metadata(c).size /\ c.received.content = Metadata(c).content

Download(c) ==
    Malformed(c, {"--artifact"}) \o Free(c)
    \o Malformed(c, {"--workspace"}) \o <<Get("artifacts", c.run)>>
    \o (IF Listed(c) = {} THEN Refuse(TRUE)
        ELSE <<Get("artifact", c.artifact)>>
             \o Refuse(c.received.size > ArtifactBytes) \o Refuse(~AsListed(c))
             \o WriteNew(c, c.received.content))

(* list, status, receipt and events read; cancel asks nothing. *)
ReadRuns(c) == Malformed(c, {"--workspace"}) \o <<Get(c.command, c.run)>>
CancelRun(c) == Malformed(c, {"--workspace"}) \o <<Post("cancel", c.run)>>

RunScript(c) ==
    (CASE c.command = "upload" -> Upload(c)
       [] c.command = "run" -> StartRun(c)
       [] c.command = "repair" -> Repair(c)
       [] c.command = "certify" -> Certify(c)
       [] c.command = "certificate" -> Certificate(c)
       [] c.command = "certificate-verify" -> CertificateVerify(c)
       [] c.command = "certificate-revoke" -> CertificateRevoke(c)
       [] c.command = "download" -> Download(c)
       [] c.command = "cancel" -> CancelRun(c)
       [] OTHER -> ReadRuns(c))
    \o <<Stop("done")>>

RunsCommand(c) == Play(RunScript(c), c.fails)

-----------------------------------------------------------------------------
(* PROPERTIES                                                              *)

(* What costs or cannot be undone was confirmed or given --yes, is asked   *)
(* for once, and in a workspace named exactly.                             *)
PaidOnlyAsked(c, run) ==
    LET costs == {k \in DOMAIN run.sent : run.sent[k].verb = "POST" /\ run.sent[k].what # "cancel"}
    IN  /\ Cardinality(costs) <= 1
        /\ costs # {} => (c.yes \/ c.agrees) /\ "--workspace" \notin c.malformed
        /\ \A k \in costs : run.sent[k].what = "runs" => run.sent[k].keyed

(* A repair or a certification is about an output the service still keeps  *)
(* of that very run, and runs on the run's own pinned source.              *)
PinnedToParent(c, run) ==
    \A k \in DOMAIN run.sent :
        run.sent[k].what = "runs" /\ run.sent[k].id # None =>
          /\ run.sent[k].id = c.run /\ c.parent.id = c.run
          /\ c.parent.status \in {"failed"} \cup (IF c.command = "certify" THEN {"succeeded", "cancelled"} ELSE {})
          /\ [name |-> "output.zip", content |-> run.sent[k].hash] \in
                {[name |-> c.manifest[j].name, content |-> c.manifest[j].content] : j \in DOMAIN c.manifest}
          /\ run.sent[k].source = c.parent.request.source /\ run.sent[k].source # None

(* A file is only written where there was none, with bytes that are what   *)
(* the manifest lists or the certificate that was read; and a download     *)
(* that says it is done has written one.                                   *)
KeptWhole(c, run) ==
    /\ run.wrote # <<>> => ~c.exists /\ ~c.appears /\ Len(run.wrote) = 1
    /\ c.command = "download" /\ run.wrote # <<>> =>
         \E k \in DOMAIN c.manifest :
            /\ c.manifest[k].name = c.artifact /\ c.manifest[k].content = run.wrote[1].content
            /\ c.manifest[k].size <= ArtifactBytes
    /\ c.command = "download" /\ run.end = "done" => run.wrote # <<>>

(* A certificate is called valid only when one trusted key signed this     *)
(* payload, and online only while the service holds it unrevoked.          *)
CertifiedMeansSigned(c, run) ==
    c.command = "certificate-verify" /\ run.end = "done" =>
        /\ \E k \in DOMAIN c.keys :
             /\ c.document.signature = [by |-> c.keys[k].material, over |-> c.document.payload]
             /\ \A j \in DOMAIN c.keys : c.keys[j].id = c.document.key => j = k
        /\ c.online => c.current.certificate = c.document /\ ~c.current.revoked

RunsSafe(c) ==
    LET run == RunsCommand(c)
    IN  PaidOnlyAsked(c, run) /\ PinnedToParent(c, run) /\ KeptWhole(c, run) /\ CertifiedMeansSigned(c, run)
=============================================================================
