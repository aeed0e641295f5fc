----------------------------- MODULE MediaStore -----------------------------
(***************************************************************************)
(* Uploaded media (MediaRepository, routes/assets.py) and the import and   *)
(* rollback of a legacy session (legacy_migration.py).  Contents are       *)
(* stored once, under their hash, as blobs; items refer to blobs.  An      *)
(* upload is four transactions, an import and a rollback one each.  Time   *)
(* passes so that rows get older than the retention period, and a start    *)
(* of the host purges what is older.                                       *)
(***************************************************************************)
EXTENDS Naturals, FiniteSets

CONSTANTS Uploads,    \* requests to upload, and the items they create
          Home,       \* a session that stays
          Legacy,     \* the session of the migration
          Imported,   \* the item imported with it
          Contents, Content(_), Thumbnail(_),   \* of an item; None: not an image
          MaxItems,   \* quota of items per session
          None

\* An import stores no thumbnails.
MediaAssumption ==
    /\ Imported \notin Uploads /\ Home # Legacy /\ None \notin Contents \cup Uploads \cup {Imported, Home, Legacy}
    /\ \A m \in Uploads \cup {Imported} : Content(m) \in Contents /\ Thumbnail(m) \in Contents \cup {None}
    /\ Thumbnail(Imported) = None
    /\ IsFiniteSet(Uploads) /\ MaxItems \in Nat \ {0}

VARIABLES
    legacy,   \* the imported session: "none", "there", "audited", "gone" by a rollback
    item,     \* item[m]: row of media_items
    blob,     \* rows of media_blobs, by their hash
    refs,     \* items with a row in media_references
    upload,   \* upload[u]: the next step of the request, and its session
    aged,     \* blobs, and deletions of items, older than the retention period
    together, \* observed: two uploads were in progress at once
    reader,   \* a run that resolves a reference in its prompt, or its attachment tool
    leaked    \* observed: it was handed the content of another session

vars == <<legacy, item, blob, refs, upload, aged, together, reader, leaked>>
reading == <<reader, leaked>>

Sessions == {Home} \cup (IF legacy \in {"there", "audited"} THEN {Legacy} ELSE {})

Media == Uploads \cup {Imported}
NoItem == [state |-> "none", session |-> None]
NoReader == [at |-> "idle", item |-> None, session |-> None]

Init ==
    /\ legacy = "none"
    /\ item = [m \in Media |-> NoItem]
    /\ blob = {} /\ refs = {} /\ aged = {} /\ together = FALSE
    /\ upload = [u \in Uploads |-> [at |-> "new", session |-> None]]
    /\ reader = NoReader /\ leaked = FALSE

-----------------------------------------------------------------------------
(* upload_media *)

Busy(u) == upload[u].at \notin {"new", "done", "error"}
Goes(u, to) == upload' = [upload EXCEPT ![u].at = to]

\* list() of one session leaves out the deleted items.
Live(s) == {m \in Media : item[m].state = "live" /\ (s = None \/ item[m].session = s)}

\* Mutant: the count may be the limit already.
WithinLate(s) == Cardinality(Live(s)) <= MaxItems

Within(s) == Cardinality(Live(s)) < MaxItems

\* The session and the quota are checked before anything is stored.
Upload(u, s) ==
    /\ upload[u].at = "new" /\ s \in Sessions \cup {None}
    /\ upload' = [upload EXCEPT ![u] = [at |-> IF Within(s) THEN "blob" ELSE "error", session |-> s]]
    /\ together' = (together \/ \E v \in Uploads \ {u} : Busy(v))
    /\ UNCHANGED <<legacy, item, blob, refs, aged, reading>>

StoreBlob(u) ==
    /\ upload[u].at = "blob"
    /\ blob' = blob \cup {Content(u)}
    /\ Goes(u, IF Thumbnail(u) = None THEN "item" ELSE "thumbnail")
    /\ UNCHANGED <<legacy, item, refs, aged, together, reading>>

StoreThumbnail(u) ==
    /\ upload[u].at = "thumbnail"
    /\ blob' = blob \cup {Thumbnail(u)}
    /\ Goes(u, "item")
    /\ UNCHANGED <<legacy, item, refs, aged, together, reading>>

Blobs(m) == {Content(m), Thumbnail(m)} \ {None}

\* Foreign keys: the blobs and the session may be gone, then the request fails.
CreateItem(u) ==
    LET s == upload[u].session IN
    /\ upload[u].at = "item"
    /\ IF Blobs(u) \subseteq blob /\ s \in Sessions \cup {None}
       THEN /\ item' = [item EXCEPT ![u] = [state |-> "live", session |-> s]]
            /\ Goes(u, IF s = None THEN "done" ELSE "reference")
       ELSE Goes(u, "error") /\ UNCHANGED item
    /\ UNCHANGED <<legacy, blob, refs, aged, together, reading>>

AddReference(u) ==
    /\ upload[u].at = "reference"
    /\ IF item[u].state # "none" THEN refs' = refs \cup {u} /\ Goes(u, "done")
                                 ELSE Goes(u, "error") /\ UNCHANGED refs
    /\ UNCHANGED <<legacy, item, blob, aged, together, reading>>

\* mark_deleted: the row stays until a purge.
Delete(m) ==
    /\ item[m].state = "live"
    /\ item' = [item EXCEPT ![m].state = "deleted"]
    /\ UNCHANGED <<legacy, blob, refs, upload, aged, together, reading>>

-----------------------------------------------------------------------------
(* The legacy session *)

\* _import_session: a blob of the same content is used again.
ImportSession ==
    /\ blob' = blob \cup {Content(Imported)}
    /\ item' = [item EXCEPT ![Imported] = [state |-> "live", session |-> Legacy]]

\* import_bundle: all its sessions, or none, in one transaction
Import ==
    /\ legacy = "none" /\ legacy' = "there"
    /\ ImportSession
    /\ UNCHANGED <<refs, upload, aged, together, reading>>

\* A run in the imported session is audited: audit_records keep their session from deletion.
Audit ==
    /\ legacy = "there" /\ legacy' = "audited"
    /\ UNCHANGED <<item, blob, refs, upload, aged, together, reading>>

\* Mutant: the items are left to ON DELETE SET NULL.
GoneNone(m) == FALSE

\* rollback() deletes the items of the session before the session.
Gone(m) == item[m].session = Legacy

\* Mutant: thumbnails do not count as a use.
UsesContent(m, b) == item[m].state # "none" /\ Content(m) = b

Uses(m, b) == item[m].state # "none" /\ b \in Blobs(m)

Rollback ==
    /\ legacy = "there" /\ legacy' = "gone"
    /\ item' = [m \in Media |->
                   IF Gone(m) THEN NoItem
                   ELSE IF item[m].session = Legacy THEN [item[m] EXCEPT !.session = None]
                   ELSE item[m]]
    /\ refs' = {m \in refs : item'[m].state # "none"}
    /\ blob' = {b \in blob : \E m \in Media : ~Gone(m) /\ Uses(m, b)}
    /\ aged' = aged \cap (blob' \cup {m \in Media : item'[m].state = "deleted"})
    /\ UNCHANGED <<upload, together, reading>>

-----------------------------------------------------------------------------
(* A run of session s asks for an item *)

\* Mutant: an item of any session will do.
SharedAny(m, s) == item[m].state = "live"

\* Shared(m, s): it is an item of the session, or of none
Shared(m, s) == item[m].state = "live" /\ item[m].session \in {None, s}

Asks(m, s, to) ==
    /\ reader.at = "idle" /\ s \in Sessions /\ Shared(m, s)
    /\ reader' = [at |-> to, item |-> m, session |-> s]
    /\ UNCHANGED <<legacy, item, blob, refs, upload, aged, together, leaked>>

\* The attachment tool
ReadAttachment(m, s) == Asks(m, s, "read")

\* _hydrate_media_references of the prompt
Hydrate(m, s) == Asks(m, s, "hydrate")

\* The session an item was put into
Owner(m) == IF m = Imported THEN Legacy ELSE upload[m].session

Receives ==
    /\ leaked' = (leaked \/ Owner(reader.item) \notin {None, reader.session})
    /\ reader' = NoReader

\* get_blob, after another await: the item may have gone meanwhile.
ReadBlob ==
    /\ reader.at \in {"read", "hydrate"}
    /\ IF Content(reader.item) \notin blob THEN reader' = NoReader /\ UNCHANGED leaked
       ELSE IF reader.at = "read" THEN Receives
       ELSE reader' = [reader EXCEPT !.at = "reference"] /\ UNCHANGED leaked
    /\ UNCHANGED <<legacy, item, blob, refs, upload, aged, together>>

\* A prompt refers to its items from now on, deleted or not.
ReferSession ==
    /\ reader.at = "reference"
    /\ IF item[reader.item].state = "none" THEN reader' = NoReader /\ UNCHANGED <<refs, leaked>>
       ELSE refs' = refs \cup {reader.item} /\ Receives
    /\ UNCHANGED <<legacy, item, blob, upload, aged, together>>

-----------------------------------------------------------------------------
\* The retention period passes for everything that is there.
Age ==
    /\ aged' = blob \cup {m \in Media : item[m].state = "deleted"}
    /\ UNCHANGED <<legacy, item, blob, refs, upload, together, reading>>

\* The host stops, which ends the requests, and TauWebServices.open() purges.
Restart ==
    LET purged == {m \in Media : item[m].state = "deleted" /\ m \in aged} IN
    /\ item' = [m \in Media |-> IF m \in purged THEN NoItem ELSE item[m]]
    /\ refs' = refs \ purged
    /\ blob' = {b \in blob : b \notin aged \/ \E m \in Media \ purged : Uses(m, b)}
    /\ aged' = aged \cap blob'
    /\ upload' = [u \in Uploads |-> IF Busy(u) THEN [upload[u] EXCEPT !.at = "error"] ELSE upload[u]]
    /\ reader' = NoReader
    /\ UNCHANGED <<legacy, together, leaked>>

Next ==
    \/ \E u \in Uploads :
           \/ \E s \in {Home, Legacy, None} : Upload(u, s)
           \/ StoreBlob(u) \/ StoreThumbnail(u) \/ CreateItem(u) \/ AddReference(u)
    \/ \E m \in Media : Delete(m) \/ \E s \in Sessions : ReadAttachment(m, s) \/ Hydrate(m, s)
    \/ ReadBlob \/ ReferSession
    \/ Import \/ Audit \/ Rollback \/ Age \/ Restart

Spec == Init /\ [][Next]_vars

-----------------------------------------------------------------------------
\* The types of the variables.
TypeOK ==
    /\ legacy \in {"none", "there", "audited", "gone"} /\ together \in BOOLEAN
    /\ item \in [Media -> [state : {"none", "live", "deleted"}, session : {Home, Legacy, None}]]
    /\ blob \subseteq Contents /\ refs \subseteq Media /\ aged \subseteq Contents \cup Media
    /\ upload \in [Uploads -> [at : {"new", "blob", "thumbnail", "item", "reference", "done", "error"},
                               session : {Home, Legacy, None}]]
    /\ reader \in [at : {"idle", "read", "hydrate", "reference"}, item : Media \cup {None},
                   session : {Home, Legacy, None}]
    /\ leaked \in BOOLEAN

\* Every item has its content and its thumbnail: a blob that two items share survives the
\* rollback or the purge of one of them, and no upload ends with a blob that was taken away.
BlobsExist == \A m \in Media : item[m].state # "none" => Blobs(m) \subseteq blob

\* An item that was put into a session never becomes visible to every session, as an item
\* without a session is; the foreign key would do that to what a rollback leaves behind.
StaysPrivate == \A m \in Media : item[m].state # "none" => item[m].session = Owner(m)

\* A run is handed only what was put into its session or into none, although an item, its blob and
\* its reference are read in steps of their own, between which an import is rolled back.
SeenInSession == ~leaked

\* A session never has more items than the quota, unless uploads ran at the same time: the
\* quota is read before the awaits that store the item.
QuotaKept == together \/ \A s \in {Home, Legacy} : Cardinality(Live(s)) <= MaxItems

-----------------------------------------------------------------------------
(* The inductive invariant behind them *)

\* A request has no item before it has written its row, and stores a thumbnail only of an image.
ItemsComeLast ==
    \A u \in Uploads :
        /\ upload[u].at \in {"new", "blob", "thumbnail", "item"} => item[u].state = "none"
        /\ upload[u].at = "thumbnail" => Thumbnail(u) # None

\* Nothing belongs to the legacy session before it is there.
LegacyComesFirst == legacy = "none" => item[Imported].state = "none" /\ \A u \in Uploads : upload[u].session # Legacy

\* What a run is about to read was once an item that it may see.
ReaderMaySee ==
    reader.at # "idle" =>
        /\ reader.item \in Media /\ (reader.item \in Uploads => upload[reader.item].at # "new")
        /\ Owner(reader.item) \in {None, reader.session}

\* Uploads that are not at once store one item at a time, into the room that they were promised.
RoomIsLeft ==
    together \/
        /\ \A u, v \in Uploads : Busy(u) /\ Busy(v) => u = v
        /\ \A u \in Uploads, s \in {Home, Legacy} :
               upload[u].at \in {"blob", "thumbnail", "item"} /\ upload[u].session = s => Within(s)

IInv ==
    /\ TypeOK /\ BlobsExist /\ StaysPrivate /\ SeenInSession /\ QuotaKept
    /\ ItemsComeLast /\ LegacyComesFirst /\ ReaderMaySee /\ RoomIsLeft
=============================================================================
