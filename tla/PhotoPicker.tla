------------------------------ MODULE PhotoPicker ------------------------------
(***************************************************************************)
(* Choosing the photo of a new post: SelectImageVC and the part of         *)
(* UploadPostVC that the user sees.                                        *)
(*                                                                         *)
(* fetchPhotos fills images and assets on a background queue, one append   *)
(* at a time and without a lock, while the main thread lays the grid out   *)
(* from the same arrays; the large picture in the header is asked for      *)
(* asynchronously.  A photo is its number in the fetch result; a thumbnail *)
(* and the asset it was made from carry the same number.                   *)
(***************************************************************************)
EXTENDS Naturals, Sequences

CONSTANTS
    N,        \* allPhotos.count
    Broken,   \* the photos for which the image manager has no thumbnail
    MaxPicks, \* bound: taps on the grid
    MaxViews, \* bound: the header is not scrolled back into view once it has
              \* been shown this often
    NoPhoto   \* nil

Photos == 1..N

ASSUME PhotoAssumption == N \in Nat /\ Broken \subseteq Photos
ASSUME NoPhotoAssumption == NoPhoto \notin Photos
ASSUME BoundsAssumption == MaxPicks \in Nat /\ MaxViews \in Nat

VARIABLES
    count,         \* photos the enumeration has finished
    step,          \* where the block of fetchPhotos is for photo count + 1
    images,        \* thumbnails, in the order they were appended
    assets,        \* their assets
    selectedImage,
    reload,        \* reloadData is queued on the main queue
    dirty,         \* the collection view has to ask for its contents again
    items,         \* what numberOfItemsInSection last answered
    requests,      \* [k]: the asset of the header's k-th request, or NoPhoto
                   \* once its last result is in
    header,        \* the picture in the header
    crashed,       \* how the process died: an index out of range or a data
                   \* race on the arrays; "no" while it lives
    screen,        \* the controller on top
    photoImage,    \* UploadPostVC.photoImageView.image
    enabled,       \* the Share button
    shared,        \* the picture of the upload that was started last
    \* History.
    picks,         \* taps on the grid so far
    selections,    \* photos that have been the selected one
    newest,        \* the newest request that has been answered
    overtaken      \* an answer has come after the answer to a newer request

background == <<count, step, images, assets>>
grid       == <<dirty, items>>
picture    == <<requests, header, newest, overtaken>>
post       == <<screen, photoImage, enabled, shared>>
choice     == <<selectedImage, picks, selections>>
vars == <<background, grid, picture, post, choice, reload, crashed>>

Photo  == Photos \cup {NoPhoto}
Screen == {"select", "upload", "closed"}

TypeOK ==
    /\ count \in 0..N
    /\ step \in {"image", "asset", "select", "reload"}
    /\ images \in Seq(Photos \ Broken)
    /\ assets \in Seq(Photos \ Broken)
    /\ selectedImage \in Photo
    /\ reload \in BOOLEAN
    /\ dirty \in BOOLEAN
    /\ items \in 0..Len(images)
    /\ requests \in Seq(Photo)
    /\ header \in Photo
    /\ crashed \in {"no", "range", "race"}
    /\ screen \in Screen
    /\ photoImage \in Photo
    /\ enabled \in BOOLEAN
    /\ shared \in Photo
    /\ picks \in 0..MaxPicks
    /\ selections \subseteq Photos
    /\ newest \in 0..Len(requests)
    /\ overtaken \in BOOLEAN

\* viewDidLoad has run: the fetch is under way and nothing is laid out yet.
Init ==
    /\ count = 0
    /\ step = "image"
    /\ images = <<>>
    /\ assets = <<>>
    /\ selectedImage = NoPhoto
    /\ reload = FALSE
    /\ dirty = TRUE
    /\ items = 0
    /\ requests = <<>>
    /\ header = NoPhoto
    /\ crashed = "no"
    /\ screen = "select"
    /\ photoImage = NoPhoto
    /\ enabled = FALSE
    /\ shared = NoPhoto
    /\ picks = 0
    /\ selections = {}
    /\ newest = 0
    /\ overtaken = FALSE

-----------------------------------------------------------------------------
(* fetchPhotos, on the background queue.                                   *)

\* Mutant: the first image is selected before its asset is appended.
nextStepSelectEarly(s) == CASE s = "image"  -> "select"
                            [] s = "select" -> "asset"
                            [] s = "asset"  -> "reload"
                            [] s = "reload" -> "image"

\* The order of the block's effects on a photo that has a thumbnail.
nextStep(s) == CASE s = "image"  -> "asset"
                 [] s = "asset"  -> "select"
                 [] s = "select" -> "reload"
                 [] s = "reload" -> "image"

\* The image manager answers synchronously; without an image the block does
\* nothing at all for the photo.
noThumbnail ==
    /\ step = "image"
    /\ count + 1 \in Broken
    /\ count' = count + 1
    /\ UNCHANGED <<step, images, assets, grid, picture, post, reload, crashed,
                   choice>>

\* Mutant: an image is appended without looking whether there is one.
appendImageUnchecked ==
    /\ step = "image"
    /\ count + 1 \in Photos
    /\ step' = nextStep(step)
    /\ images' = Append(images, count + 1)
    /\ UNCHANGED <<count, assets, grid, picture, post, reload, crashed,
                   choice>>

appendImage ==
    /\ step = "image"
    /\ count + 1 \in Photos \ Broken
    /\ step' = nextStep(step)
    /\ images' = Append(images, count + 1)
    /\ UNCHANGED <<count, assets, grid, picture, post, reload, crashed,
                   choice>>

appendAsset ==
    /\ step = "asset"
    /\ step' = nextStep(step)
    /\ assets' = Append(assets, count + 1)
    /\ UNCHANGED <<count, images, grid, picture, post, reload, crashed,
                   choice>>

selectFirst ==
    /\ step = "select"
    /\ step' = nextStep(step)
    /\ IF selectedImage = NoPhoto
         THEN /\ selectedImage' = count + 1
              /\ selections' = selections \cup {count + 1}
         ELSE UNCHANGED <<selectedImage, selections>>
    /\ UNCHANGED <<count, images, assets, grid, picture, post, reload, crashed,
                   picks>>

\* Mutant: the count is compared with the number of photos.
isLastLate(n) == n = N

\* The photo with the 0-based number n is the last one.
isLast(n) == n = N - 1

finishPhoto ==
    /\ step = "reload"
    /\ step' = nextStep(step)
    /\ count' = count + 1
    /\ reload' = (reload \/ isLast(count))
    /\ UNCHANGED <<images, assets, grid, picture, post, crashed, choice>>

-----------------------------------------------------------------------------
(* The main thread.                                                        *)

Running == crashed = "no"
Alive   == Running /\ screen # "closed"

\* Swift arrays are not safe to read while another thread appends to them: a
\* layout or a tap that meets an append may read freed memory.
readDuringAppend ==
    /\ Alive
    /\ screen = "select"
    /\ dirty \/ items > 0
    /\ step \in {"image", "asset"}
    /\ count + 1 \in Photos \ Broken
    /\ crashed' = "race"
    /\ UNCHANGED <<background, grid, picture, post, reload, choice>>

\* The block that finishPhoto queued.
reloadData ==
    /\ Running
    /\ reload
    /\ reload' = FALSE
    /\ dirty' = TRUE
    /\ UNCHANGED <<background, items, picture, post, crashed, choice>>

\* The first position of photo x in the sequence s (x occurs in s).
firstIndex(s, x) ==
    CHOOSE i \in DOMAIN s : s[i] = x /\ \A j \in 1..(i - 1) : s[j] # x

\* Mutant: the asset after the selected one.
selectedAssetAfter ==
    LET i == firstIndex(images, selectedImage)
    IN  assets[IF i < Len(assets) THEN i + 1 ELSE i]

selectedAsset == assets[firstIndex(images, selectedImage)]

\* viewForSupplementaryElementOfKind: ask for the large picture.
showHeader ==
    /\ IF selectedImage = NoPhoto
         THEN UNCHANGED <<requests, crashed>>
         ELSE IF firstIndex(images, selectedImage) > Len(assets)
                THEN crashed' = "range" /\ UNCHANGED requests
                ELSE /\ requests' = Append(requests, selectedAsset)
                     /\ UNCHANGED crashed
    /\ UNCHANGED <<header, newest, overtaken>>

\* The collection view, when it is on screen, asks its data source again: after
\* viewDidLoad and after every reloadData.
layout ==
    /\ Alive
    /\ screen = "select"
    /\ dirty
    /\ dirty' = FALSE
    /\ items' = Len(images)
    /\ showHeader
    /\ UNCHANGED <<background, post, reload, choice>>

\* The header is scrolled back into view.
scrollToHeader ==
    /\ Alive
    /\ screen = "select"
    /\ ~dirty
    /\ items > 0
    /\ Len(requests) < MaxViews
    /\ showHeader
    /\ UNCHANGED <<background, grid, post, reload, choice>>

\* The image manager calls the header's result handler, with a picture or
\* nil, for the k-th request; with last, it will not call it again.
headerImage(k, result, last) ==
    /\ Running
    /\ requests[k] # NoPhoto
    /\ result \in {requests[k], NoPhoto}
    /\ header' = result
    /\ requests' = IF last THEN [requests EXCEPT ![k] = NoPhoto] ELSE requests
    /\ overtaken' = (overtaken \/ k < newest)
    /\ newest' = IF k > newest THEN k ELSE newest
    /\ UNCHANGED <<background, grid, post, reload, crashed, choice>>

\* Mutant: the grid is not reloaded.
didSelectItemNoReload(row) ==
    /\ Alive
    /\ screen = "select"
    /\ ~dirty
    /\ row \in 1..items
    /\ picks < MaxPicks
    /\ picks' = picks + 1
    /\ selectedImage' = images[row]
    /\ selections' = selections \cup {images[row]}
    /\ UNCHANGED <<background, grid, picture, post, reload, crashed>>

didSelectItem(row) ==
    /\ Alive
    /\ screen = "select"
    /\ ~dirty
    /\ row \in 1..items
    /\ picks < MaxPicks
    /\ picks' = picks + 1
    /\ selectedImage' = images[row]
    /\ selections' = selections \cup {images[row]}
    /\ dirty' = TRUE
    /\ UNCHANGED <<background, items, picture, post, reload, crashed>>

handleCancel ==
    /\ Alive
    /\ screen = "select"
    /\ screen' = "closed"
    /\ UNCHANGED <<background, grid, picture, photoImage, enabled, shared,
                   reload, crashed, choice>>

\* A new UploadPostVC takes whatever picture the header shows.
handleNext ==
    /\ Alive
    /\ screen = "select"
    /\ screen' = "upload"
    /\ photoImage' = header
    /\ enabled' = FALSE
    /\ UNCHANGED <<background, grid, picture, shared, reload, crashed, choice>>

\* The navigation bar's back button.
popUploadPost ==
    /\ Alive
    /\ screen = "upload"
    /\ screen' = "select"
    /\ UNCHANGED <<background, grid, picture, photoImage, enabled, shared,
                   reload, crashed, choice>>

textViewDidChange(isEmpty) ==
    /\ Alive
    /\ screen = "upload"
    /\ enabled' = ~isEmpty
    /\ UNCHANGED <<background, grid, picture, screen, photoImage, shared,
                   reload, crashed, choice>>

\* handleUploadPost returns at once without a picture.
handleUploadPost ==
    /\ Alive
    /\ screen = "upload"
    /\ enabled
    /\ photoImage # NoPhoto
    /\ shared' = photoImage
    /\ UNCHANGED <<background, grid, picture, screen, photoImage, enabled,
                   reload, crashed, choice>>

\* The completion block of the posts write dismisses the two screens.
dismissUploadPost ==
    /\ Alive
    /\ screen = "upload"
    /\ shared # NoPhoto
    /\ screen' = "closed"
    /\ UNCHANGED <<background, grid, picture, photoImage, enabled, shared,
                   reload, crashed, choice>>

-----------------------------------------------------------------------------
Background == \/ noThumbnail
              \/ appendImage
              \/ appendAsset
              \/ selectFirst
              \/ finishPhoto

Next ==
    \/ Running /\ Background
    \/ readDuringAppend
    \/ reloadData
    \/ layout
    \/ scrollToHeader
    \/ \E k \in DOMAIN requests, x \in Photo, last \in BOOLEAN :
           headerImage(k, x, last)
    \/ \E row \in Photos : didSelectItem(row)
    \/ handleCancel
    \/ handleNext
    \/ popUploadPost
    \/ \E isEmpty \in BOOLEAN : textViewDidChange(isEmpty)
    \/ handleUploadPost
    \/ dismissUploadPost

Spec == Init /\ [][Next]_vars

\* The background queue and the main queue make progress.
Fairness == /\ WF_vars(Running /\ Background)
            /\ WF_vars(reloadData)
            /\ WF_vars(layout)

FairSpec == Spec /\ Fairness

-----------------------------------------------------------------------------
\* assets[index] in viewForSupplementaryElementOfKind is read while the
\* background queue fills assets after images.  It is out of range in one case
\* only: the user has tapped the newest thumbnail, and fetchPhotos has not yet
\* appended that photo's asset.  Neither the selection that fetchPhotos makes
\* itself nor a tap on any other thumbnail gets there.
HeaderInRange ==
    crashed = "range" => picks > 0 /\ step = "asset" /\ selectedImage = count + 1

\* The picture in the header is the selected photo once everything asked for
\* has been answered, unless the image manager answered out of order.  Taps,
\* reloads and scrolling alone never leave an old picture there.
HeaderShowsSelection ==
    /\ Running
    /\ ~dirty
    /\ \A k \in DOMAIN requests : requests[k] = NoPhoto
    /\ ~overtaken
    => header \in {selectedImage, NoPhoto}

\* Whatever the threads do to images and assets, and however late pictures
\* arrive, the picture that is shared is one that has been selected.
SharedWasSelected == shared # NoPhoto => shared \in selections

\* "reload collection view with images once count has completed": when the
\* enumeration is over the grid comes to show every thumbnail.
GridComplete ==
    count = N ~> items = Len(images) \/ ~Running \/ screen # "select"

=============================================================================
