-------------------------- MODULE AttachmentAssets --------------------------
(***************************************************************************)
(* The attachment store (mail_attachment_assets and                        *)
(* mail_attachment_reservations) and the upload requests that fill it.     *)
(*                                                                         *)
(* A row is never deleted and (mailbox, source, request_id) is unique, so   *)
(* a request id stands for the one asset it can ever produce.  An upload    *)
(* is cut at its awaits: reading the body and scanning.  The key is held    *)
(* in memory, so awaiting it lets no other request in between: finding the  *)
(* earlier row and reserving are one step.                                 *)
(***************************************************************************)
EXTENDS Naturals, FiniteSets, FiniteSetsExt

CONSTANTS Request,        \* upload request ids of one mailbox, with their source
          Upload,         \* uploads being served at the same time
          Content,        \* file contents, by their sha256
          SizeOf,         \* the length of a content
          MaxFile,        \* maxFileBytes
          MaxUploads,     \* maxConcurrentUploads
          UnlinkedQuota,  \* unlinkedQuotaBytes
          TotalQuota,     \* totalQuotaBytes
          NoRequest, NoContent

ASSUME AssetAssumption ==
    /\ IsFiniteSet(Request)
    /\ MaxFile \in Nat \ {0}
    /\ SizeOf \in [Content -> 1..MaxFile]
    /\ MaxUploads \in Nat \ {0}
    /\ UnlinkedQuota \in Nat /\ TotalQuota \in Nat
    /\ NoRequest \notin Request
    /\ NoContent \notin Content

VARIABLES asset,     \* state of the asset of a request id, "none" before its row exists
          stored,    \* the content of that row
          late,      \* assets whose expires_at has passed
          slot,      \* bytes of the unreleased reservation of a request id, or 0
          upc,       \* where an upload is
          ureq,      \* the request id it carries
          ucontent,  \* the bytes it carries
          answered   \* ever answered with an asset: pairs <<request id, content>>

assetVars == <<asset, stored, late, slot, upc, ureq, ucontent, answered>>

AssetsTypeOK ==
    /\ asset \in [Request -> {"none", "ready", "expired"}]
    /\ stored \in [Request -> Content \cup {NoContent}]
    /\ late \subseteq Request
    /\ slot \in [Request -> 0..MaxFile]
    /\ upc \in [Upload -> {"idle", "replay", "reading", "scanning"}]
    /\ ureq \in [Upload -> Request \cup {NoRequest}]
    /\ ucontent \in [Upload -> Content \cup {NoContent}]
    /\ \A u \in Upload : upc[u] # "idle" => ureq[u] \in Request /\ ucontent[u] \in Content
    /\ \A r \in Request : asset[r] = "none" <=> stored[r] = NoContent
    /\ answered \subseteq Request \X Content

UploadsIdle ==
    /\ upc' = [u \in Upload |-> "idle"]
    /\ ureq' = [u \in Upload |-> NoRequest]
    /\ ucontent' = [u \in Upload |-> NoContent]

AssetsInit ==
    /\ asset = [r \in Request |-> "none"]
    /\ stored = [r \in Request |-> NoContent]
    /\ late = {}
    /\ slot = [r \in Request |-> 0]
    /\ upc = [u \in Upload |-> "idle"]
    /\ ureq = [u \in Upload |-> NoRequest]
    /\ ucontent = [u \in Upload |-> NoContent]
    /\ answered = {}

-----------------------------------------------------------------------------
Ready == {r \in Request : asset[r] = "ready"}
Held == {r \in Request : slot[r] # 0}

BytesOf(rows) == MapThenSumSet(LAMBDA r : SizeOf[stored[r]], rows)
Reserved == MapThenSumSet(LAMBDA r : slot[r], Held)

(* rows that count against the quota of files no draft uses                 *)
Loose(linked) == {r \in Ready \ linked : r \notin late}

BadReservable(r, size, linked) ==
    /\ slot[r] = 0
    /\ Cardinality(Held) < MaxUploads
    /\ BytesOf(Loose(linked)) + size <= UnlinkedQuota
    /\ BytesOf(Ready) + size <= TotalQuota

Reservable(r, size, linked) ==
    /\ slot[r] = 0
    /\ Cardinality(Held) < MaxUploads
    /\ BytesOf(Loose(linked)) + Reserved + size <= UnlinkedQuota
    /\ BytesOf(Ready) + Reserved + size <= TotalQuota

Begin(u, r, c, pc) ==
    /\ upc[u] = "idle"
    /\ upc' = [upc EXCEPT ![u] = pc]
    /\ ureq' = [ureq EXCEPT ![u] = r]
    /\ ucontent' = [ucontent EXCEPT ![u] = c]

End(u) ==
    /\ upc' = [upc EXCEPT ![u] = "idle"]
    /\ ureq' = [ureq EXCEPT ![u] = NoRequest]
    /\ ucontent' = [ucontent EXCEPT ![u] = NoContent]

(* the request id is known: the body is only compared with what is stored   *)
StartReplay(u, r, c) ==
    /\ asset[r] = "ready"
    /\ Begin(u, r, c, "replay")
    /\ UNCHANGED <<asset, stored, late, slot, answered>>

(* reservedBytes is the declared length, or the limit when none is declared *)
StartUpload(u, r, c, size, linked) ==
    /\ asset[r] # "ready"
    /\ size \in {SizeOf[c], MaxFile}
    /\ Reservable(r, size, linked)
    /\ Begin(u, r, c, "reading")
    /\ slot' = [slot EXCEPT ![r] = size]
    /\ UNCHANGED <<asset, stored, late, answered>>

BadReplayed(u) ==
    /\ upc[u] = "replay"
    /\ answered' = answered \cup {<<ureq[u], ucontent[u]>>}
    /\ End(u)
    /\ UNCHANGED <<asset, stored, late, slot>>

Replayed(u) ==
    /\ upc[u] = "replay"
    /\ ucontent[u] = stored[ureq[u]]
    /\ answered' = answered \cup {<<ureq[u], ucontent[u]>>}
    /\ End(u)
    /\ UNCHANGED <<asset, stored, late, slot>>

(* 409 for other bytes, or the body could not be read                       *)
ReplayFails(u) ==
    /\ upc[u] = "replay"
    /\ End(u)
    /\ UNCHANGED <<asset, stored, late, slot, answered>>

(* the body is complete and valid; SlotGuardsRequest shows that no row for   *)
(* the request id can have appeared meanwhile                               *)
BodyRead(u) ==
    /\ upc[u] = "reading"
    /\ asset[ureq[u]] # "ready"
    /\ upc' = [upc EXCEPT ![u] = "scanning"]
    /\ UNCHANGED <<asset, stored, late, slot, ureq, ucontent, answered>>

(* aborted, too large, invalid, refused by the scanner, or a row of the      *)
(* request id that expired and still holds the unique key: the reservation  *)
(* is released                                                             *)
UploadFails(u) ==
    /\ upc[u] \in {"reading", "scanning"}
    /\ slot' = [slot EXCEPT ![ureq[u]] = 0]
    /\ End(u)
    /\ UNCHANGED <<asset, stored, late, answered>>

(* row and release are one transaction                                      *)
Store(u) ==
    /\ upc[u] = "scanning"
    /\ asset[ureq[u]] = "none"
    /\ asset' = [asset EXCEPT ![ureq[u]] = "ready"]
    /\ stored' = [stored EXCEPT ![ureq[u]] = ucontent[u]]
    /\ slot' = [slot EXCEPT ![ureq[u]] = 0]
    /\ answered' = answered \cup {<<ureq[u], ucontent[u]>>}
    /\ End(u)
    /\ UNCHANGED late

-----------------------------------------------------------------------------
Discard(r, linked) ==
    /\ asset[r] = "ready"
    /\ r \notin linked
    /\ asset' = [asset EXCEPT ![r] = "expired"]
    /\ UNCHANGED <<stored, late, slot, upc, ureq, ucontent, answered>>

(* retention clears a batch: the row stays, its bytes go                    *)
Purge(batch) ==
    /\ asset' = [r \in Request |-> IF r \in batch THEN "expired" ELSE asset[r]]
    /\ UNCHANGED <<stored, late, slot, upc, ureq, ucontent, answered>>

(* UNLINKED_TTL_MS passes                                                   *)
DayPasses(r) ==
    /\ asset[r] = "ready"
    /\ r \notin late
    /\ late' = late \cup {r}
    /\ UNCHANGED <<asset, stored, slot, upc, ureq, ucontent, answered>>
=============================================================================
