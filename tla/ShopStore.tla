----------------------------- MODULE ShopStore -----------------------------
(* The shop's page (backend/app/services/shop_store.py): its owner, its text  *)
(* and its media. Every change locks the one row of the store, so a          *)
(* transaction is a step; saving media takes two of them, with the upload of  *)
(* the object in between. The objects themselves are ObjectOutbox's.          *)
EXTENDS MiniSessions

CONSTANTS
    MediaIds,       \* bound: media stored at once
    ShopCategories, \* the categories that exist
    Media,          \* what administrators save: [kind, category, active]
    CarouselLimit,  \* _MAX_ACTIVE_CAROUSEL
    InitialMedia

VARIABLES
    owner,      \* the customer who may change the page, or None
    author,     \* who wrote the page's text: a customer, or None for staff
    media       \* ID -> None or a row

storeVars == <<owner, author, media>>

Kinds == {"carousel", "category", "announcement"}

\* A row; by is the customer who uploaded it, or None for staff.
MediaRow == [kind : Kinds, category : ShopCategories \cup {None}, active : BOOLEAN,
             by : Nat \cup {None}]

\* category_matches_kind.
CategoryFits(m) == m.kind = "category" <=> m.category # None

\* The active media of a kind and category: a new one takes their place.
InSlot(shown, kind, category) ==
    {i \in MediaIds : /\ shown[i] # None /\ shown[i].active
                      /\ shown[i].kind = kind /\ shown[i].category = category}

SlotsHold(shown) ==
    /\ Cardinality(InSlot(shown, "carousel", None)) <= CarouselLimit
    /\ Cardinality(InSlot(shown, "announcement", None)) <= 1
    /\ \A c \in ShopCategories : Cardinality(InSlot(shown, "category", c)) <= 1

ASSUME ShopStoreAssumption ==
    /\ CarouselLimit \in Nat \ {0} /\ IsFiniteSet(MediaIds)
    /\ None \notin ShopCategories /\ None \notin MediaRow
    /\ \A m \in Media : m.kind \in Kinds /\ m.active \in BOOLEAN /\ CategoryFits(m)
    /\ \A shown \in InitialMedia :
          /\ shown \in [MediaIds -> MediaRow \cup {None}] /\ SlotsHold(shown)
          /\ \A i \in MediaIds : shown[i] # None => CategoryFits(shown[i])

StoreInit == owner = None /\ author = None /\ media \in InitialMedia

-----------------------------------------------------------------------------
(* Owner and text                                                            *)

\* The administrator's update_store: only an active customer becomes the owner.
AssignOwner(p, customer) ==
    /\ customer # None => customers[customer].active
    /\ Spend(p)
    /\ owner' = customer
    /\ UNCHANGED <<calls, author, media>>

\* Requests of the owner: require_store_owner comes before the store is locked.
OwnerBegins(p, s, pc, req) ==
    owner = sessions[s].customer /\ BeginAs(p, s, pc, req)

\* _check_owner under the lock; None stands for an administrator.
MayChange(customer) == customer # None => owner = customer /\ customers[customer].active

PatchStore(p, s) ==
    /\ OwnerBegins(p, s, "store_patch", [by |-> sessions[s].customer])
    /\ UNCHANGED storeVars

PatchStoreCommit(p) ==
    LET by == calls[p].req.by IN
    /\ At(p, "store_patch")
    /\ author' = IF MayChange(by) THEN by ELSE author
    /\ EndCall(p)
    /\ UNCHANGED <<owner, media>>

-----------------------------------------------------------------------------
(* Media                                                                     *)

Stored == {i \in MediaIds : media[i] # None}

Carousel == InSlot(media, "carousel", None)

\* _validate_media_target.
TargetValid(m) ==
    /\ m.kind = "category" => m.category \in ShopCategories
    /\ m.kind = "carousel" /\ m.active => Cardinality(Carousel) < CarouselLimit

MaySave(req) == MayChange(req.by) /\ TargetValid(req.media)

SaveMedia(p, m) ==
    /\ Begin(p, "media_intent", [by |-> None, media |-> m])
    /\ UNCHANGED storeVars

Announcement == [kind |-> "announcement", category |-> None, active |-> TRUE]

UploadAnnouncement(p, s) ==
    /\ OwnerBegins(p, s, "media_intent", [by |-> sessions[s].customer, media |-> Announcement])
    /\ UNCHANGED storeVars

\* The first transaction checks and commits the intent; the upload follows.
MediaIntent(p) ==
    /\ At(p, "media_intent")
    /\ IF MaySave(calls[p].req) THEN Continue(p, "media_attach", None) ELSE EndCall(p)
    /\ UNCHANGED storeVars

\* Mutant: what the first transaction checked is not checked again.
AcceptedBefore(req) == TRUE

\* The checks of the second transaction.
StillAccepted(req) == MaySave(req)

\* An active category image or announcement replaces the one in its place.
Replaced(m) == IF m.active /\ m.kind # "carousel" THEN InSlot(media, m.kind, m.category) ELSE {}

MediaAttach(p) ==
    LET req == calls[p].req
        m == req.media IN
    /\ At(p, "media_attach")
    /\ StillAccepted(req)
    /\ \E i \in MediaIds \ Stored :
          media' = [j \in MediaIds |->
              IF j = i THEN [kind |-> m.kind, category |-> m.category, active |-> m.active,
                             by |-> req.by]
              ELSE IF j \in Replaced(m) THEN None ELSE media[j]]
    /\ EndCall(p)
    /\ UNCHANGED <<owner, author>>

\* The upload fails, or the checks of the second transaction do.
MediaFailed(p) ==
    /\ At(p, "media_attach")
    /\ EndCall(p)
    /\ UNCHANGED storeVars

\* update_shop_media: what is activated must not meet another in its place.
SetActive(p, i, active) ==
    LET m == media[i] IN
    /\ m # None /\ m.active # active
    /\ active => /\ TargetValid([m EXCEPT !.active = TRUE])
                 /\ m.kind # "carousel" => InSlot(media, m.kind, m.category) = {}
    /\ Spend(p)
    /\ media' = [media EXCEPT ![i].active = active]
    /\ UNCHANGED <<calls, owner, author>>

DeleteMedia(p, i) ==
    /\ media[i] # None
    /\ Spend(p)
    /\ media' = [media EXCEPT ![i] = None]
    /\ UNCHANGED <<calls, owner, author>>

StoreStep(p) ==
    /\ \/ \E customer \in DOMAIN customers \cup {None} : AssignOwner(p, customer)
       \/ \E s \in DOMAIN sessions : PatchStore(p, s) \/ UploadAnnouncement(p, s)
       \/ PatchStoreCommit(p)
       \/ \E m \in Media : SaveMedia(p, m)
       \/ MediaIntent(p)
       \/ MediaAttach(p)
       \/ MediaFailed(p)
       \/ \E i \in MediaIds, active \in BOOLEAN : SetActive(p, i, active)
       \/ \E i \in MediaIds : DeleteMedia(p, i)
    /\ UNCHANGED <<sessionVars, now>>

-----------------------------------------------------------------------------
(* Correctness                                                               *)

StoreTypeOK ==
    /\ {owner, author} \subseteq DOMAIN customers \cup {None}
    /\ media \in [MediaIds -> MediaRow \cup {None}]
    /\ \A i \in Stored : CategoryFits(media[i])

\* The page never shows two announcements, two images of one category or more
\* carousel media than the limit; and text or media a customer's request stores
\* are stored while that customer owns the shop. Both must survive the upload
\* between the two transactions of a save, when the page and its owner may
\* change (shop_store.py:101-131, 330-421, 447-491).
ShopPageContract ==
    [][/\ SlotsHold(media')
       /\ author' # author => owner = author'
       /\ \A i \in MediaIds : media'[i] # media[i] /\ media'[i] # None /\ media'[i].by # None =>
              owner = media'[i].by \/ media[i] # None]_<<owner, author, media>>
=============================================================================
