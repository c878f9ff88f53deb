----------------------------- MODULE PreviewMain -----------------------------
(***************************************************************************)
(* The attachment preview of src/packages/datasheet/src/pc/components/    *)
(* preview_file/preview_main/preview_main.tsx.                             *)
(*                                                                         *)
(* The parent owns activeIndex; the component moves it with the previous  *)
(* and next arrows (and the Left/Right keys, which call the same          *)
(* handlers), and with the thumbnail list.  Every move resets the zoom and *)
(* rotation.  After each render in which activeIndex changed, an effect    *)
(* clears officePreviewUrl and, for an office document or a pdf when       *)
(* office preview is enabled, starts an asynchronous request for its       *)
(* preview URL; the answer, whenever it comes, is stored.  Requests are    *)
(* never cancelled.  A URL is represented by the index of the file it was  *)
(* requested for.                                                          *)
(***************************************************************************)
EXTENDS Integers

CONSTANTS
    NFiles,               \* files.length
    DocFiles,             \* indices of the files that are office docs or pdfs
    OfficePreviewEnable,  \* props.officePreviewEnable
    NoUrl,                \* officePreviewUrl = null
    MaxFetches,           \* bound on the number of preview requests, for TLC
    ZoomScales,           \* the newScale values onZoom is called with, in hundredths
    ActualScales,         \* the initActualScale values an image reports, in tenths
    MaxRotate             \* bound on transformInfo.rotate, for TLC

ASSUME PreviewAssumption ==
    /\ NFiles \in Nat \ {0}
    /\ DocFiles \subseteq 0 .. NFiles - 1
    /\ OfficePreviewEnable \in BOOLEAN
    /\ NoUrl \notin Nat
    /\ MaxFetches \in Nat
    /\ ZoomScales \subseteq Nat \ {0}
    /\ ActualScales \subseteq Nat \ {0}
    /\ MaxRotate \in Nat

\* The image scales for which MIN_SCALE and MAX_SCALE divide exactly, so that
\* the integer quotients below are the code's quotients.
ASSUME ExactScaleAssumption ==
    \A a \in ActualScales : 100 % a = 0 /\ 5000 % a = 0

VARIABLES
    activeIndex,          \* the parent's activeIndex
    officePreviewUrl,     \* NoUrl, or the file whose preview URL is stored
    inflight,             \* files whose getAttachPreviewUrl has not answered
    fetches,              \* number of requests started so far
    effectDue,            \* activeIndex changed since the effect last ran
    transformInfo         \* [scale (hundredths), rotate, initActualScale (tenths)]

vars == <<activeIndex, officePreviewUrl, inflight, fetches, effectDue,
          transformInfo>>

Files == 0 .. NFiles - 1

\* initTransformInfo: scale 1, no rotation, the actual scale not yet known (-1).
initTransformInfo == [scale |-> 100, rotate |-> 0, initActualScale |-> -10]

\* JavaScript's x / a for the exact quotients used here, a possibly negative.
Quot(x, a) == IF a < 0 THEN -(x \div (-a)) ELSE x \div a

\* MIN_SCALE / initActualScale and MAX_SCALE / initActualScale, in hundredths
\* for an initActualScale a in tenths (MIN_SCALE = 0.1, MAX_SCALE = 5).
minTransformScale(a) == Quot(100, a)

maxTransformScale(a) == Quot(5000, a)

Init ==
    /\ activeIndex \in Files
    /\ officePreviewUrl = NoUrl
    /\ inflight = {}
    /\ fetches = 0
    /\ effectDue = TRUE
    /\ transformInfo = initTransformInfo

(***************************************************************************)
(* setTransformInfo(initTransformInfo, true); setActiveIndex(i).           *)
(***************************************************************************)
MoveTo(i) ==
    /\ activeIndex' = i
    /\ transformInfo' = initTransformInfo
    /\ effectDue' = TRUE
    /\ UNCHANGED <<officePreviewUrl, inflight, fetches>>

\* Mutation: handlePrev without its activeIndex - 1 >= 0 check.
handlePrevNoGuard ==
    MoveTo(activeIndex - 1)

\* Mutation: an off-by-one bound in the arrow handlers.
handleNextOffByOne ==
    /\ activeIndex + 1 <= NFiles
    /\ MoveTo(activeIndex + 1)

(***************************************************************************)
(* handlePrev, from the left arrow or the Left key: only when there is a  *)
(* previous file.                                                          *)
(***************************************************************************)
handlePrev ==
    /\ activeIndex - 1 >= 0
    /\ MoveTo(activeIndex - 1)

(***************************************************************************)
(* handleNext, from the right arrow or the Right key.                      *)
(***************************************************************************)
handleNext ==
    /\ activeIndex + 1 < NFiles
    /\ MoveTo(activeIndex + 1)

(***************************************************************************)
(* The thumbnail list's setActiveIndex: a click on another thumbnail.      *)
(***************************************************************************)
SelectThumbnail(i) ==
    /\ i # activeIndex
    /\ MoveTo(i)

(***************************************************************************)
(* The effect on [activeIndex]: setOfficePreviewUrl(null), then            *)
(* fetchPreviewUrl() for the file active in this render.                   *)
(***************************************************************************)
PreviewEffect ==
    /\ effectDue
    /\ effectDue' = FALSE
    /\ officePreviewUrl' = NoUrl
    /\ IF activeIndex \in DocFiles /\ OfficePreviewEnable
         THEN /\ fetches < MaxFetches
              /\ inflight' = inflight \cup {activeIndex}
              /\ fetches' = fetches + 1
         ELSE UNCHANGED <<inflight, fetches>>
    /\ UNCHANGED <<activeIndex, transformInfo>>

(***************************************************************************)
(* The answer to fetchPreviewUrl for file i: on success the URL is         *)
(* stored whatever file is active now; on failure a message is shown.     *)
(***************************************************************************)
PreviewResponse(i) ==
    /\ i \in inflight
    /\ inflight' = inflight \ {i}
    /\ \/ officePreviewUrl' = i
       \/ UNCHANGED officePreviewUrl
    /\ UNCHANGED <<activeIndex, fetches, effectDue, transformInfo>>

(***************************************************************************)
(* onRotate: a quarter turn more, from state.rotate || 0.                  *)
(***************************************************************************)
onRotate ==
    /\ transformInfo.rotate + 90 <= MaxRotate
    /\ transformInfo' = [transformInfo EXCEPT !.rotate = @ + 90]
    /\ UNCHANGED <<activeIndex, officePreviewUrl, inflight, fetches, effectDue>>

(***************************************************************************)
(* onZoom(newScale): the bounds are computed from initActualScale as the   *)
(* callback read it, and newScale is clamped to them.                      *)
(***************************************************************************)
onZoom(newScale) ==
    LET a   == transformInfo.initActualScale
        min == minTransformScale(a)
        max == maxTransformScale(a)
    IN  /\ transformInfo' =
               [transformInfo EXCEPT !.scale =
                   IF newScale <= min THEN min
                   ELSE IF newScale >= max THEN max
                   ELSE newScale]
        /\ UNCHANGED <<activeIndex, officePreviewUrl, inflight, fetches, effectDue>>

(***************************************************************************)
(* The image view (outside this component) reports the image's actual     *)
(* scale once it has loaded, through setTransformInfo.                     *)
(***************************************************************************)
ImageLoaded(a) ==
    /\ transformInfo.initActualScale < 0
    /\ transformInfo' = [transformInfo EXCEPT !.initActualScale = a]
    /\ UNCHANGED <<activeIndex, officePreviewUrl, inflight, fetches, effectDue>>

Next ==
    \/ handlePrev
    \/ handleNext
    \/ \E i \in Files : SelectThumbnail(i)
    \/ PreviewEffect
    \/ \E i \in Files : PreviewResponse(i)
    \/ onRotate
    \/ \E z \in ZoomScales : onZoom(z)
    \/ \E a \in ActualScales : ImageLoaded(a)

Spec == Init /\ [][Next]_vars

-----------------------------------------------------------------------------
TypeOK ==
    /\ activeIndex \in Nat
    /\ officePreviewUrl \in Files \cup {NoUrl}
    /\ inflight \subseteq Files
    /\ fetches \in 0 .. MaxFetches
    /\ effectDue \in BOOLEAN
    /\ transformInfo \in [scale : Int, rotate : 0 .. MaxRotate,
                          initActualScale : ActualScales \cup {-10}]

(***************************************************************************)
(* files[activeIndex] always exists: activeFile.name is read on every      *)
(* render before the `if (!activeFile)` check, so an index past the end    *)
(* would throw.  Arrows, keys and thumbnails all keep it in range.         *)
(***************************************************************************)
ActiveInRange ==
    activeIndex < NFiles

(***************************************************************************)
(* Once the effect has run for an active office document, the preview URL *)
(* the Swiper and the ToolBar get is that document's: the effect clears   *)
(* the previous file's URL before asking for the new one.                  *)
(***************************************************************************)
PreviewUrlMatchesActive ==
    /\ ~effectDue
    /\ activeIndex \in DocFiles
    /\ officePreviewUrl # NoUrl
    => officePreviewUrl = activeIndex


(***************************************************************************)
(* The image is never shown at a zero or negative scale: MIN_SCALE = 0.1   *)
(* is the smallest zoom the toolbar offers, and onZoom clamps every        *)
(* newScale between MIN_SCALE and MAX_SCALE of the image's actual size.    *)
(***************************************************************************)
ScalePositive ==
    transformInfo.scale > 0

=============================================================================
