--------------------------- MODULE PhotoPickerProofs ---------------------------
(***************************************************************************)
(* Proofs about PhotoPicker, for every number of photos, every set of      *)
(* photos without a thumbnail and every bound.                             *)
(***************************************************************************)
EXTENDS PhotoPicker, SequenceTheorems, TLAPS

-----------------------------------------------------------------------------
(* The arrays that fetchPhotos fills.                                      *)

\* Thumbnails are in the order of the fetch result, so no photo is there twice.
Increasing(s) == \A i, j \in 1..Len(s) : i < j => s[i] < s[j]

\* While the block works on a photo its thumbnail is the last one; between
\* photos all are behind the enumeration.
Enumerated ==
    /\ step = "image" => \A i \in 1..Len(images) : images[i] <= count
    /\ step # "image" => /\ count + 1 \in Photos \ Broken
                         /\ Len(images) > 0
                         /\ images[Len(images)] = count + 1

\* Only the newest thumbnail may be without its asset.
InStep ==
    /\ Len(images) = Len(assets) + (IF step = "asset" THEN 1 ELSE 0)
    /\ \A i \in 1..Len(assets) : assets[i] = images[i]

\* The selection is a thumbnail; the one that selectFirst made has its asset.
Selected ==
    selectedImage # NoPhoto =>
        \E i \in 1..Len(images) : /\ images[i] = selectedImage
                                  /\ picks = 0 => i <= Len(assets)

\* What the user may see or share has been selected.
ShownWasSelected ==
    /\ selectedImage \in selections \cup {NoPhoto}
    /\ \A k \in 1..Len(requests) : requests[k] \in selections \cup {NoPhoto}
    /\ {header, photoImage, shared} \subseteq selections \cup {NoPhoto}

\* The inductive invariant.
PickerInv == /\ TypeOK /\ Increasing(images) /\ Enumerated /\ InStep
             /\ Selected /\ ShownWasSelected /\ HeaderInRange

\* Among distinct thumbnails the first index of a photo is its only one.
LEMMA FirstIndexOnly ==
    ASSUME NEW s \in Seq(Photos), Increasing(s), NEW i \in 1..Len(s)
    PROVE  firstIndex(s, s[i]) = i
  <1>1. DOMAIN s = 1..Len(s) /\ Len(s) \in Nat /\ \A j \in 1..Len(s) : s[j] \in Nat
    BY PhotoAssumption DEF Photos
  <1>2. s[i] = s[i] /\ \A j \in 1..(i - 1) : s[j] # s[i]
    BY <1>1 DEF Increasing
  <1>3. ASSUME NEW k \in DOMAIN s, s[k] = s[i] PROVE k = i
    <2>1. ~(k < i) /\ ~(i < k)
      BY <1>1, <1>3 DEF Increasing
    <2>2. QED
      BY <1>1, <2>1
  <1>4. QED
    BY <1>1, <1>2, <1>3 DEF firstIndex

LEMMA InitPicker == Init => PickerInv
  <1> SUFFICES ASSUME Init PROVE PickerInv
    OBVIOUS
  <1> USE PhotoAssumption, NoPhotoAssumption, BoundsAssumption
  <1>1. Len(images) = 0 /\ Len(assets) = 0 /\ Len(requests) = 0
    BY DEF Init
  <1>2. TypeOK
    <2>1. /\ images \in Seq(Photos \ Broken) /\ assets \in Seq(Photos \ Broken)
          /\ requests \in Seq(Photo)
      BY DEF Init
    <2>2. count \in 0..N /\ items \in 0..Len(images) /\ picks \in 0..MaxPicks
          /\ newest \in 0..Len(requests)
      BY <1>1 DEF Init
    <2>3. QED
      BY <2>1, <2>2 DEF Init, TypeOK, Photo, Screen
  <1>3. QED
    BY <1>1, <1>2 DEF Init, PickerInv, Increasing, Enumerated, InStep, Selected,
                      ShownWasSelected, HeaderInRange

-----------------------------------------------------------------------------
(* The background queue.                                                   *)

arrays == <<images, assets, step, count>>

\* Facts about the arrays that a step leaves alone stay.
LEMMA ArraysAlone ==
    ASSUME PickerInv, UNCHANGED arrays
    PROVE  Increasing(images)' /\ Enumerated' /\ InStep'
  BY DEF arrays, PickerInv, Increasing, Enumerated, InStep

LEMMA BackgroundPicker == PickerInv /\ Running /\ Background => PickerInv'
  <1> SUFFICES ASSUME PickerInv, Running, Background PROVE PickerInv'
    OBVIOUS
  <1> USE PhotoAssumption, NoPhotoAssumption, BoundsAssumption
  <1> USE DEF grid, picture, post, choice, Photos
  <1>0. /\ images \in Seq(Photos \ Broken) /\ assets \in Seq(Photos \ Broken)
        /\ Len(images) \in Nat /\ Len(assets) \in Nat /\ count \in Nat
        /\ \A i \in 1..Len(images) : images[i] \in Photos \ Broken
    BY DEF PickerInv, TypeOK
  <1>1. CASE noThumbnail
    <2>1. TypeOK'
      BY <1>1 DEF noThumbnail, PickerInv, TypeOK
    <2>2. Enumerated'
      BY <1>0, <1>1 DEF noThumbnail, PickerInv, Enumerated
    <2>3. QED
      BY <1>1, <2>1, <2>2
         DEF noThumbnail, PickerInv, Increasing, InStep, Selected, ShownWasSelected,
             HeaderInRange, Running
  <1>2. CASE appendImage
    <2> DEFINE r == Append(images, count + 1)
    <2>1. /\ images' = r /\ step' = "asset" /\ step = "image"
          /\ count + 1 \in Photos \ Broken
          /\ UNCHANGED <<count, assets, grid, picture, post, reload, crashed, choice>>
      BY <1>2 DEF appendImage, nextStep
    <2>2. /\ r \in Seq(Photos \ Broken) /\ Len(r) = Len(images) + 1
          /\ r[Len(images) + 1] = count + 1
          /\ \A i \in 1..Len(images) : r[i] = images[i]
      BY <1>0, <2>1
    <2> HIDE DEF r
    <2>3. TypeOK'
      BY <1>0, <2>1, <2>2 DEF PickerInv, TypeOK
    <2>4. Increasing(images)'
      <3>1. \A i \in 1..Len(images) : images[i] < count + 1
        BY <1>0, <2>1 DEF PickerInv, Enumerated
      <3>2. ASSUME NEW i \in 1..Len(r), NEW j \in 1..Len(r), i < j
            PROVE  r[i] < r[j]
        <4>1. i \in 1..Len(images) /\ r[i] = images[i]
          BY <1>0, <2>2, <3>2
        <4>2. CASE j = Len(images) + 1
          BY <2>2, <3>1, <4>1, <4>2
        <4>3. CASE j \in 1..Len(images)
          BY <2>2, <3>2, <4>1, <4>3 DEF PickerInv, Increasing
        <4>4. QED
          BY <1>0, <2>2, <4>2, <4>3
      <3>3. QED
        BY <2>1, <3>2 DEF Increasing
    <2>5. Enumerated'
      BY <1>0, <2>1, <2>2 DEF Enumerated
    <2>6. InStep'
      BY <1>0, <2>1, <2>2 DEF PickerInv, InStep
    <2>7. Selected'
      BY <1>0, <2>1, <2>2 DEF PickerInv, Selected
    <2>8. ShownWasSelected' /\ HeaderInRange'
      BY <2>1 DEF PickerInv, ShownWasSelected, HeaderInRange, Running
    <2>9. QED
      BY <2>3, <2>4, <2>5, <2>6, <2>7, <2>8 DEF PickerInv
  <1>3. CASE appendAsset
    <2> DEFINE r == Append(assets, count + 1)
    <2>1. /\ assets' = r /\ step' = "select" /\ step = "asset"
          /\ count + 1 \in Photos \ Broken
          /\ images[Len(images)] = count + 1
          /\ Len(images) = Len(assets) + 1
          /\ UNCHANGED <<count, images, grid, picture, post, reload, crashed, choice>>
      BY <1>3 DEF appendAsset, nextStep, PickerInv, Enumerated, InStep
    <2>2. /\ r \in Seq(Photos \ Broken) /\ Len(r) = Len(assets) + 1
          /\ r[Len(assets) + 1] = count + 1
          /\ \A i \in 1..Len(assets) : r[i] = assets[i]
      BY <1>0, <2>1
    <2> HIDE DEF r
    <2>3. TypeOK'
      BY <1>0, <2>1, <2>2 DEF PickerInv, TypeOK
    <2>4. Increasing(images)' /\ Enumerated'
      BY <2>1 DEF PickerInv, Increasing, Enumerated
    <2>5. InStep'
      BY <1>0, <2>1, <2>2 DEF PickerInv, InStep
    <2>6. Selected'
      BY <1>0, <2>1, <2>2 DEF PickerInv, Selected
    <2>7. ShownWasSelected' /\ HeaderInRange'
      BY <2>1 DEF PickerInv, ShownWasSelected, HeaderInRange, Running
    <2>8. QED
      BY <2>3, <2>4, <2>5, <2>6, <2>7 DEF PickerInv
  <1>4. CASE selectFirst
    <2>1. /\ step = "select" /\ step' = "reload"
          /\ UNCHANGED <<count, images, assets, grid, picture, post, reload, crashed,
                         picks>>
          /\ count + 1 \in Photos \ Broken
          /\ images[Len(images)] = count + 1
          /\ Len(images) > 0
          /\ Len(images) = Len(assets)
      BY <1>0, <1>4 DEF selectFirst, nextStep, PickerInv, Enumerated, InStep
    <2>2. \/ UNCHANGED <<selectedImage, selections>>
          \/ /\ selectedImage' = count + 1
             /\ selections' = selections \cup {count + 1}
      BY <1>4 DEF selectFirst
    <2>3. TypeOK'
      BY <2>1, <2>2 DEF PickerInv, TypeOK, Photo
    <2>4. Increasing(images)' /\ Enumerated' /\ InStep'
      BY <2>1 DEF PickerInv, Increasing, Enumerated, InStep
    <2>5. Selected'
      BY <1>0, <2>1, <2>2 DEF PickerInv, Selected
    <2>6. ShownWasSelected'
      BY <2>1, <2>2 DEF PickerInv, ShownWasSelected
    <2>7. HeaderInRange'
      BY <2>1 DEF PickerInv, HeaderInRange, Running
    <2>8. QED
      BY <2>3, <2>4, <2>5, <2>6, <2>7 DEF PickerInv
  <1>5. CASE finishPhoto
    <2>1. /\ step = "reload" /\ step' = "image" /\ count' = count + 1
          /\ UNCHANGED <<images, assets, grid, picture, post, crashed, choice>>
      BY <1>5 DEF finishPhoto, nextStep
    <2>2. count + 1 \in Photos /\ images[Len(images)] = count + 1 /\ Len(images) > 0
      BY <2>1 DEF PickerInv, Enumerated
    <2>3. reload' \in BOOLEAN
      BY <1>5 DEF finishPhoto, PickerInv, TypeOK, isLast
    <2>4. TypeOK'
      BY <2>1, <2>2, <2>3 DEF PickerInv, TypeOK
    <2>5. \A i \in 1..Len(images) : images[i] <= count + 1
      <3>1. \A i \in 1..Len(images) : i < Len(images) => images[i] < count + 1
        BY <1>0, <2>2 DEF PickerInv, Increasing
      <3>2. ASSUME NEW i \in 1..Len(images) PROVE images[i] <= count + 1
        <4>1. i < Len(images) \/ i = Len(images)
          BY <1>0
        <4>2. images[i] \in Nat
          BY <1>0
        <4>3. QED
          BY <1>0, <2>2, <3>1, <4>1, <4>2
      <3>3. QED
        BY <3>2
    <2>6. Increasing(images)' /\ Enumerated' /\ InStep'
      BY <2>1, <2>5 DEF PickerInv, Increasing, Enumerated, InStep
    <2>7. Selected' /\ ShownWasSelected' /\ HeaderInRange'
      BY <2>1 DEF PickerInv, Selected, ShownWasSelected, HeaderInRange, Running
    <2>8. QED
      BY <2>4, <2>6, <2>7 DEF PickerInv
  <1>6. QED
    BY <1>1, <1>2, <1>3, <1>4, <1>5 DEF Background

-----------------------------------------------------------------------------
(* The main thread.                                                        *)

\* What viewForSupplementaryElementOfKind does: nothing without a selection,
\* otherwise it asks for the picture of the selected photo, if the asset is
\* there.  It is missing only for the newest thumbnail, and only after a tap.
LEMMA HeaderAsked ==
    ASSUME PickerInv, showHeader
    PROVE  /\ UNCHANGED <<header, newest, overtaken>>
           /\ \/ selectedImage = NoPhoto /\ UNCHANGED <<requests, crashed>>
              \/ /\ selectedImage # NoPhoto
                 /\ crashed' = "range" /\ picks > 0 /\ UNCHANGED requests
                 /\ step = "asset" /\ selectedImage = count + 1
              \/ /\ selectedImage # NoPhoto
                 /\ requests' = Append(requests, selectedImage) /\ UNCHANGED crashed
  <1> USE PhotoAssumption
  <1>1. CASE selectedImage = NoPhoto
    BY <1>1 DEF showHeader
  <1>2. CASE selectedImage # NoPhoto
    <2>1. PICK i \in 1..Len(images) : /\ images[i] = selectedImage
                                      /\ picks = 0 => i <= Len(assets)
      BY <1>2 DEF PickerInv, Selected
    <2>2. images \in Seq(Photos) /\ Len(assets) \in Nat /\ picks \in Nat
      BY BoundsAssumption DEF PickerInv, TypeOK
    <2>3. firstIndex(images, selectedImage) = i
      BY <2>1, <2>2, FirstIndexOnly DEF PickerInv
    <2>4. i <= Len(assets) => selectedAsset = selectedImage
      BY <2>1, <2>2, <2>3 DEF selectedAsset, PickerInv, InStep
    <2>5. i > Len(assets) => picks > 0
      BY <2>1, <2>2
    <2>6. i > Len(assets) => step = "asset" /\ i = Len(images)
      BY <2>1, <2>2 DEF PickerInv, InStep
    <2>7. i > Len(assets) => step = "asset" /\ selectedImage = count + 1
      BY <2>1, <2>6 DEF PickerInv, Enumerated
    <2>8. QED
      BY <1>2, <2>2, <2>3, <2>4, <2>5, <2>7 DEF showHeader
  <1>3. QED
    BY <1>1, <1>2

\* The conjuncts of the invariant that such a call can disturb.
LEMMA HeaderAskedKeeps ==
    ASSUME PickerInv, showHeader, UNCHANGED <<background, post, reload, choice>>
    PROVE  /\ requests' \in Seq(Photo) /\ newest' \in 0..Len(requests')
           /\ Selected' /\ ShownWasSelected' /\ HeaderInRange'
           /\ crashed' \in {"no", "range", "race"}
           /\ UNCHANGED <<header, overtaken>>
  <1>1. /\ requests \in Seq(Photo) /\ newest \in 0..Len(requests)
        /\ selectedImage \in Photo /\ Len(requests) \in Nat
        /\ selectedImage \in selections \cup {NoPhoto}
        /\ crashed \in {"no", "range", "race"}
    BY DEF PickerInv, TypeOK, ShownWasSelected
  <1>2. Selected'
    BY DEF PickerInv, Selected, background, choice
  <1>3. CASE UNCHANGED requests
    <2>1. ShownWasSelected'
      BY <1>3, HeaderAsked DEF PickerInv, ShownWasSelected, post, choice
    <2>2. HeaderInRange'
      BY HeaderAsked DEF PickerInv, HeaderInRange, background, choice
    <2>3. QED
      BY <1>1, <1>2, <1>3, <2>1, <2>2, HeaderAsked
  <1>4. CASE requests' = Append(requests, selectedImage) /\ UNCHANGED crashed
    <2>1. /\ requests' \in Seq(Photo) /\ Len(requests') = Len(requests) + 1
          /\ \A k \in 1..Len(requests) : requests'[k] = requests[k]
          /\ requests'[Len(requests) + 1] = selectedImage
      BY <1>1, <1>4
    <2>2. \A k \in 1..Len(requests') : requests'[k] \in selections \cup {NoPhoto}
      BY <1>1, <2>1 DEF PickerInv, ShownWasSelected
    <2>3. ShownWasSelected'
      BY <2>2, HeaderAsked DEF PickerInv, ShownWasSelected, post, choice
    <2>4. HeaderInRange'
      BY <1>4 DEF PickerInv, HeaderInRange, background, choice
    <2>5. QED
      BY <1>1, <1>2, <1>4, <2>1, <2>3, <2>4, HeaderAsked
  <1>5. QED
    BY <1>3, <1>4, HeaderAsked

LEMMA NextPicker == PickerInv /\ [Next]_vars => PickerInv'
  <1> SUFFICES ASSUME PickerInv, [Next]_vars PROVE PickerInv'
    OBVIOUS
  <1> USE PhotoAssumption, NoPhotoAssumption, BoundsAssumption
  <1> USE DEF background, grid, picture, post, choice, arrays
  <1>0. /\ Len(images) \in Nat /\ Len(requests) \in Nat
        /\ \A i \in 1..Len(images) : images[i] \in Photos
    BY DEF PickerInv, TypeOK
  <1>1. CASE readDuringAppend
    BY <1>1, ArraysAlone
       DEF readDuringAppend, PickerInv, TypeOK, Selected, ShownWasSelected,
           HeaderInRange
  <1>2. CASE reloadData
    BY <1>2, ArraysAlone
       DEF reloadData, PickerInv, TypeOK, Selected, ShownWasSelected, HeaderInRange
  <1>3. CASE layout
    <2>1. /\ showHeader /\ UNCHANGED <<background, post, reload, choice>>
          /\ dirty' = FALSE /\ items' = Len(images)
      BY <1>3 DEF layout
    <2>2. /\ requests' \in Seq(Photo) /\ newest' \in 0..Len(requests')
          /\ Selected' /\ ShownWasSelected' /\ HeaderInRange'
          /\ crashed' \in {"no", "range", "race"}
          /\ UNCHANGED <<header, overtaken>>
      BY <2>1, HeaderAskedKeeps
    <2>3. TypeOK'
      <3>1. items' \in 0..Len(images')
        BY <1>0, <2>1
      <3>2. QED
        BY <2>1, <2>2, <3>1 DEF PickerInv, TypeOK
    <2>4. QED
      BY <2>1, <2>2, <2>3, ArraysAlone DEF PickerInv
  <1>4. CASE scrollToHeader
    <2>1. showHeader /\ UNCHANGED <<background, grid, post, reload, choice>>
      BY <1>4 DEF scrollToHeader
    <2>2. TypeOK'
      BY <1>0, <2>1, HeaderAskedKeeps DEF PickerInv, TypeOK
    <2>3. QED
      BY <2>1, <2>2, HeaderAskedKeeps, ArraysAlone DEF PickerInv
  <1>5. ASSUME NEW k \in DOMAIN requests, NEW x \in Photo, NEW last \in BOOLEAN,
               headerImage(k, x, last)
        PROVE  PickerInv'
    <2>0. requests \in Seq(Photo) /\ k \in 1..Len(requests)
          /\ newest \in 0..Len(requests) /\ overtaken \in BOOLEAN
      BY DEF PickerInv, TypeOK
    <2>1. /\ requests' \in Seq(Photo) /\ Len(requests') = Len(requests)
          /\ \A j \in 1..Len(requests) : requests'[j] \in {requests[j], NoPhoto}
      BY <1>5, <2>0 DEF headerImage, Photo
    <2>2. newest' \in 0..Len(requests) /\ overtaken' \in BOOLEAN
      BY <1>0, <1>5, <2>0 DEF headerImage
    <2>3. header' \in {requests[k], NoPhoto} /\ header' \in Photo
      BY <1>5 DEF headerImage
    <2>4. UNCHANGED <<background, grid, post, reload, crashed, choice>>
      BY <1>5 DEF headerImage
    <2>5. TypeOK'
      BY <2>1, <2>2, <2>3, <2>4 DEF PickerInv, TypeOK
    <2>6. ShownWasSelected'
      BY <2>0, <2>1, <2>3, <2>4 DEF PickerInv, ShownWasSelected
    <2>7. QED
      BY <2>4, <2>5, <2>6, ArraysAlone DEF PickerInv, Selected, HeaderInRange
  <1>6. ASSUME NEW row \in Photos, didSelectItem(row) PROVE PickerInv'
    <2>1. row \in 1..Len(images) /\ picks' = picks + 1 /\ picks' \in 0..MaxPicks
      BY <1>0, <1>6 DEF didSelectItem, PickerInv, TypeOK
    <2>2. images[row] \in Photos
      BY <1>0, <2>1
    <2>3. TypeOK'
      BY <1>6, <2>1, <2>2 DEF didSelectItem, PickerInv, TypeOK, Photo
    <2>4. picks' # 0
      BY <2>1 DEF PickerInv, TypeOK
    <2>5. Selected' /\ ShownWasSelected'
      BY <1>6, <2>1, <2>4 DEF didSelectItem, PickerInv, Selected, ShownWasSelected
    <2>6. HeaderInRange'
      BY <1>6 DEF didSelectItem, Alive, Running, HeaderInRange
    <2>7. QED
      BY <1>6, <2>3, <2>5, <2>6, ArraysAlone DEF didSelectItem, PickerInv
  <1>7. CASE handleCancel
    BY <1>7, ArraysAlone
       DEF handleCancel, PickerInv, TypeOK, Screen, Selected, ShownWasSelected,
           HeaderInRange
  <1>8. CASE handleNext
    BY <1>8, ArraysAlone
       DEF handleNext, PickerInv, TypeOK, Screen, Selected, ShownWasSelected,
           HeaderInRange
  <1>9. CASE popUploadPost
    BY <1>9, ArraysAlone
       DEF popUploadPost, PickerInv, TypeOK, Screen, Selected, ShownWasSelected,
           HeaderInRange
  <1>10. ASSUME NEW isEmpty \in BOOLEAN, textViewDidChange(isEmpty) PROVE PickerInv'
    BY <1>10, ArraysAlone
       DEF textViewDidChange, PickerInv, TypeOK, Selected, ShownWasSelected,
           HeaderInRange
  <1>11. CASE handleUploadPost
    BY <1>11, ArraysAlone
       DEF handleUploadPost, PickerInv, TypeOK, Selected, ShownWasSelected,
           HeaderInRange
  <1>12. CASE dismissUploadPost
    BY <1>12, ArraysAlone
       DEF dismissUploadPost, PickerInv, TypeOK, Screen, Selected, ShownWasSelected,
           HeaderInRange
  <1>13. CASE UNCHANGED vars
    BY <1>13, ArraysAlone
       DEF vars, PickerInv, TypeOK, Selected, ShownWasSelected, HeaderInRange
  <1>14. QED
    BY <1>1, <1>2, <1>3, <1>4, <1>5, <1>6, <1>7, <1>8, <1>9, <1>10, <1>11, <1>12,
       <1>13, BackgroundPicker DEF Next

\* Every reachable state is well typed.
THEOREM TypeCorrect == Spec => []TypeOK
  <1>1. PickerInv => TypeOK
    BY DEF PickerInv
  <1>2. QED
    BY InitPicker, NextPicker, <1>1, PTL DEF Spec

\* assets[index] is in range, although fetchPhotos appends to images before it
\* appends to assets, except when the user has tapped the newest thumbnail and
\* the header is laid out before that photo's own asset is appended.
THEOREM HeaderSafe == Spec => []HeaderInRange
  <1>1. PickerInv => HeaderInRange
    BY DEF PickerInv
  <1>2. QED
    BY InitPicker, NextPicker, <1>1, PTL DEF Spec

\* The picture that handleUploadPost shares is one that has been selected,
\* however late the image manager's pictures arrive.
THEOREM SharedSafe == Spec => []SharedWasSelected
  <1>1. PickerInv => SharedWasSelected
    BY DEF PickerInv, ShownWasSelected, SharedWasSelected
  <1>2. QED
    BY InitPicker, NextPicker, <1>1, PTL DEF Spec

-----------------------------------------------------------------------------
(* The picture in the header.                                              *)

\* The last request is about the selection, unless a new layout is due.  An
\* unanswered request is newer than every answered one, and while answers come in
\* order the header shows the newest answer.
HeaderFollows ==
    /\ selectedImage = NoPhoto => requests = <<>> /\ header = NoPhoto
    /\ \A k \in 1..Len(requests) : k > newest => requests[k] # NoPhoto
    /\ Running /\ ~dirty /\ Len(requests) > 0
           => requests[Len(requests)] \in {selectedImage, NoPhoto}
    /\ Running /\ ~dirty /\ ~overtaken /\ newest = Len(requests)
           => header \in {selectedImage, NoPhoto}

LEMMA NextHeaderFollows ==
    PickerInv /\ HeaderFollows /\ [Next]_vars => HeaderFollows'
  <1> SUFFICES ASSUME PickerInv, HeaderFollows, [Next]_vars PROVE HeaderFollows'
    OBVIOUS
  <1> USE PhotoAssumption, NoPhotoAssumption, BoundsAssumption
  <1> USE DEF background, grid, picture, post, choice, Running
  <1>0. /\ requests \in Seq(Photo) /\ Len(requests) \in Nat
        /\ newest \in 0..Len(requests) /\ overtaken \in BOOLEAN /\ dirty \in BOOLEAN
        /\ selectedImage \in Photo /\ header \in Photo
    BY DEF PickerInv, TypeOK
  <1>1. CASE selectFirst
    <2>1. CASE selectedImage # NoPhoto
      BY <1>1, <2>1 DEF selectFirst, HeaderFollows
    <2>2. CASE selectedImage = NoPhoto
      <3>1. requests = <<>> /\ header = NoPhoto /\ Len(requests) = 0
        BY <2>2 DEF HeaderFollows
      <3>2. selectedImage' = count + 1 /\ UNCHANGED picture
        BY <1>1, <2>2 DEF selectFirst
      <3>3. count + 1 \in Photos
        BY <1>1 DEF selectFirst, PickerInv, Enumerated
      <3>4. QED
        BY <3>1, <3>2, <3>3 DEF HeaderFollows
    <2>3. QED
      BY <2>1, <2>2
  <1>2. ASSUME showHeader, UNCHANGED <<background, post, reload, choice>>,
               dirty' = FALSE, dirty = FALSE \/ layout,
               Running
        PROVE  HeaderFollows'
    <2>1. CASE selectedImage = NoPhoto /\ UNCHANGED <<requests, crashed>>
      <3>1. requests = <<>> /\ header = NoPhoto /\ Len(requests) = 0
        BY <2>1 DEF HeaderFollows
      <3>2. QED
        BY <1>2, <2>1, <3>1, HeaderAsked DEF HeaderFollows
    <2>2. CASE selectedImage # NoPhoto /\ crashed' = "range" /\ UNCHANGED requests
      BY <1>2, <2>2, HeaderAsked DEF HeaderFollows
    <2>3. CASE /\ selectedImage # NoPhoto
               /\ requests' = Append(requests, selectedImage) /\ UNCHANGED crashed
      <3>1. /\ Len(requests') = Len(requests) + 1
            /\ \A k \in 1..Len(requests) : requests'[k] = requests[k]
            /\ requests'[Len(requests) + 1] = selectedImage
        BY <1>0, <2>3
      <3>2. \A k \in 1..Len(requests') : k > newest => requests'[k] # NoPhoto
        BY <1>0, <2>3, <3>1 DEF HeaderFollows
      <3>3. newest # Len(requests')
        BY <1>0, <3>1
      <3>4. QED
        BY <1>2, <2>3, <3>1, <3>2, <3>3, HeaderAsked DEF HeaderFollows
    <2>4. QED
      BY <1>2, <2>1, <2>2, <2>3, HeaderAsked
  <1>3. CASE layout \/ scrollToHeader
    <2>1. CASE layout
      BY <1>2, <2>1 DEF layout, Alive
    <2>2. CASE scrollToHeader
      <3>1. dirty = FALSE /\ dirty' = FALSE
        BY <1>0, <2>2 DEF scrollToHeader
      <3>2. QED
        BY <1>2, <2>2, <3>1 DEF scrollToHeader, Alive
    <2>3. QED
      BY <1>3, <2>1, <2>2
  <1>4. ASSUME NEW k \in DOMAIN requests, NEW x \in Photo, NEW last \in BOOLEAN,
               headerImage(k, x, last)
        PROVE  HeaderFollows'
    <2>0. k \in 1..Len(requests)
      BY <1>0
    <2>1. /\ requests[k] # NoPhoto /\ header' \in {requests[k], NoPhoto}
          /\ UNCHANGED <<selectedImage, dirty, crashed>>
          /\ overtaken' = (overtaken \/ k < newest)
          /\ newest' = IF k > newest THEN k ELSE newest
      BY <1>4 DEF headerImage
    <2>2. /\ Len(requests') = Len(requests)
          /\ \A j \in 1..Len(requests) :
                 requests'[j] = requests[j] \/ (j = k /\ requests'[j] = NoPhoto)
      BY <1>0, <1>4, <2>0 DEF headerImage
    <2>3. selectedImage # NoPhoto
      BY <2>0 DEF HeaderFollows
    <2>4. \A j \in 1..Len(requests') : j > newest' => requests'[j] # NoPhoto
      BY <1>0, <2>0, <2>1, <2>2 DEF HeaderFollows
    <2>5. Running /\ ~dirty /\ Len(requests) > 0
              => requests'[Len(requests)] \in {selectedImage, NoPhoto}
      BY <1>0, <2>2 DEF HeaderFollows
    <2>6. Running /\ ~dirty /\ ~overtaken' /\ newest' = Len(requests)
              => header' \in {selectedImage, NoPhoto}
      <3>1. ASSUME ~overtaken', newest' = Len(requests) PROVE k = Len(requests)
        <4>1. ~(k < newest)
          BY <2>1, <3>1
        <4>2. QED
          BY <1>0, <2>0, <2>1, <3>1, <4>1
      <3>2. QED
        BY <2>1, <2>0, <3>1 DEF HeaderFollows
    <2>7. QED
      BY <2>1, <2>2, <2>3, <2>4, <2>5, <2>6 DEF HeaderFollows
  <1>5. ASSUME NEW row \in Photos, didSelectItem(row) PROVE HeaderFollows'
    <2>1. images[row] \in Photos
      BY <1>5 DEF didSelectItem, PickerInv, TypeOK
    <2>2. QED
      BY <1>5, <2>1 DEF didSelectItem, HeaderFollows
  <1>6. CASE readDuringAppend
    BY <1>6 DEF readDuringAppend, HeaderFollows
  <1>7. CASE reloadData
    BY <1>7 DEF reloadData, HeaderFollows
  <1>8. CASE UNCHANGED <<picture, selectedImage, dirty, crashed>>
    BY <1>8 DEF HeaderFollows
  <1>9. QED
    BY <1>1, <1>3, <1>4, <1>5, <1>6, <1>7, <1>8
       DEF Next, Background, vars, noThumbnail, appendImage, appendAsset, finishPhoto,
           handleCancel, handleNext, popUploadPost, textViewDidChange,
           handleUploadPost, dismissUploadPost

\* When all pictures that SelectImageVC asked for have come in order, the header
\* shows the selected photo.
THEOREM HeaderSettles == Spec => []HeaderShowsSelection
  <1>1. Init => HeaderFollows
    <2> SUFFICES ASSUME Init PROVE HeaderFollows
      OBVIOUS
    <2>1. requests = <<>> /\ Len(requests) = 0
      BY DEF Init
    <2>2. QED
      BY <2>1 DEF Init, HeaderFollows
  <1>2. PickerInv /\ HeaderFollows => HeaderShowsSelection
    <2> SUFFICES ASSUME PickerInv, HeaderFollows, Running, ~dirty, ~overtaken,
                        \A k \in DOMAIN requests : requests[k] = NoPhoto
                 PROVE  header \in {selectedImage, NoPhoto}
      BY DEF HeaderShowsSelection
    <2>1. requests \in Seq(Photo) /\ newest \in 0..Len(requests)
      BY DEF PickerInv, TypeOK
    <2>2. DOMAIN requests = 1..Len(requests)
      BY <2>1
    <2>3. \A n \in Nat : \A m \in 0..n : m # n => n \in 1..n /\ n > m
      OBVIOUS
    <2>4. newest = Len(requests)
      BY <2>1, <2>2, <2>3, LenProperties DEF HeaderFollows
    <2>5. QED
      BY <2>4 DEF HeaderFollows
  <1>3. QED
    BY <1>1, <1>2, InitPicker, NextPicker, NextHeaderFollows, PTL DEF Spec

=============================================================================
