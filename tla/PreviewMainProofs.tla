------------------------- MODULE PreviewMainProofs -------------------------
(***************************************************************************)
(* Proofs, for any number of attachments, any set of previewable files and *)
(* any zoom inputs, that the preview keeps its active index on a file and  *)
(* resets the transform on every switch.                                   *)
(***************************************************************************)
EXTENDS PreviewMain, TLAPS

IInv == TypeOK /\ ActiveInRange

(***************************************************************************)
(* The clamp bounds are integers.                                          *)
(***************************************************************************)
LEMMA QuotInt ==
    ASSUME NEW x \in Int, NEW a \in Int \ {0}
    PROVE  Quot(x, a) \in Int
BY DEF Quot

LEMMA InitIInv == Init => IInv
BY PreviewAssumption DEF Init, IInv, TypeOK, ActiveInRange, Files,
                         initTransformInfo

LEMMA NextIInv == IInv /\ [Next]_vars => IInv'
<1> SUFFICES ASSUME IInv, [Next]_vars PROVE IInv'
    OBVIOUS
<1>1. CASE handlePrev
    BY PreviewAssumption, <1>1 DEF handlePrev, MoveTo, IInv, TypeOK, ActiveInRange,
                initTransformInfo
<1>2. CASE handleNext
    BY PreviewAssumption, <1>2 DEF handleNext, MoveTo, IInv, TypeOK, ActiveInRange,
                initTransformInfo
<1>3. ASSUME NEW i \in Files, SelectThumbnail(i) PROVE IInv'
    BY PreviewAssumption, <1>3 DEF SelectThumbnail, MoveTo, IInv, TypeOK, ActiveInRange,
                initTransformInfo, Files
<1>4. CASE PreviewEffect
    <2>1. activeIndex \in Files
        BY PreviewAssumption DEF IInv, TypeOK, ActiveInRange, Files
    <2>2. /\ effectDue' = FALSE
          /\ officePreviewUrl' = NoUrl
          /\ UNCHANGED <<activeIndex, transformInfo>>
        BY <1>4 DEF PreviewEffect
    <2>3. CASE activeIndex \in DocFiles /\ OfficePreviewEnable
        <3>1. /\ fetches < MaxFetches
              /\ inflight' = inflight \cup {activeIndex}
              /\ fetches' = fetches + 1
            BY <1>4, <2>3 DEF PreviewEffect
        <3>2. inflight' \subseteq Files
            BY <2>1, <3>1 DEF IInv, TypeOK
        <3>3. fetches' \in 0 .. MaxFetches
            BY PreviewAssumption, <3>1 DEF IInv, TypeOK
        <3>4. QED
            BY <2>2, <3>2, <3>3 DEF IInv, TypeOK, ActiveInRange
    <2>5. CASE ~(activeIndex \in DocFiles /\ OfficePreviewEnable)
        <3>1. UNCHANGED <<inflight, fetches>>
            BY <1>4, <2>5 DEF PreviewEffect
        <3>2. QED
            BY PreviewAssumption, <2>2, <3>1 DEF IInv, TypeOK, ActiveInRange
    <2>4. QED
        BY <2>3, <2>5
<1>5. ASSUME NEW i \in Files, PreviewResponse(i) PROVE IInv'
    BY PreviewAssumption, <1>5 DEF PreviewResponse, IInv, TypeOK, ActiveInRange
<1>6. CASE onRotate
    BY PreviewAssumption, <1>6 DEF onRotate, IInv, TypeOK, ActiveInRange
<1>7. ASSUME NEW z \in ZoomScales, onZoom(z) PROVE IInv'
    <2>1. PICK ias \in ActualScales \cup {-10} : ias = transformInfo.initActualScale
        BY DEF IInv, TypeOK
    <2>2. ias \in Int \ {0}
        <3>1. ActualScales \subseteq Nat \ {0}
            BY PreviewAssumption
        <3>2. QED
            BY <3>1
    <2>3. minTransformScale(ias) \in Int /\ maxTransformScale(ias) \in Int
        <3>1. Quot(100, ias) \in Int /\ Quot(5000, ias) \in Int
            BY <2>2, QuotInt
        <3>2. QED
            BY <3>1 DEF minTransformScale, maxTransformScale
    <2>4. transformInfo' = [transformInfo EXCEPT !.scale =
                               IF z <= minTransformScale(ias) THEN minTransformScale(ias)
                               ELSE IF z >= maxTransformScale(ias) THEN maxTransformScale(ias)
                               ELSE z]
        BY <1>7, <2>1 DEF onZoom
    <2>5. QED
        BY PreviewAssumption, <1>7, <2>3, <2>4 DEF onZoom, IInv, TypeOK, ActiveInRange
<1>8. ASSUME NEW a \in ActualScales, ImageLoaded(a) PROVE IInv'
    BY PreviewAssumption, <1>8 DEF ImageLoaded, IInv, TypeOK, ActiveInRange
<1>9. CASE UNCHANGED vars
    BY PreviewAssumption, <1>9 DEF vars, IInv, TypeOK, ActiveInRange
<1>10. QED
    BY PreviewAssumption, <1>1, <1>2, <1>3, <1>4, <1>5, <1>6, <1>7, <1>8, <1>9 DEF Next

(***************************************************************************)
(* files[activeIndex] always exists: no sequence of arrows, keys and       *)
(* thumbnail clicks moves the active index off the list.                   *)
(***************************************************************************)
THEOREM ActiveInRangeInvariant == Spec => []ActiveInRange
<1>1. IInv => ActiveInRange
    BY DEF IInv
<1>2. QED
    BY <1>1, InitIInv, NextIInv, PTL DEF Spec

(***************************************************************************)
(* The preview's state keeps its type.                                     *)
(***************************************************************************)
THEOREM TypeCorrect == Spec => []TypeOK
<1>1. IInv => TypeOK
    BY DEF IInv
<1>2. QED
    BY <1>1, InitIInv, NextIInv, PTL DEF Spec

-----------------------------------------------------------------------------
(***************************************************************************)
(* onZoom before the image has reported its scale.  initActualScale is     *)
(* still -1 (-10 in tenths), as initTransformInfo sets it at mount and on  *)
(* every switch, so MIN_SCALE / initActualScale is -0.1 and               *)
(* MAX_SCALE / initActualScale is -5: every zoom the toolbar or the wheel  *)
(* asks for, being positive, is at least the maximum, and the scale        *)
(* becomes -5 (-500 in hundredths), a mirrored image.  This is the         *)
(* violation of ScalePositive found by TLC, for every zoom input.          *)
(***************************************************************************)
THEOREM ZoomBeforeLoad ==
    ASSUME TypeOK,
           transformInfo.initActualScale = -10,
           NEW z \in ZoomScales, onZoom(z)
    PROVE  transformInfo'.scale = -500
<1>1. minTransformScale(-10) = -10 /\ maxTransformScale(-10) = -500
    BY DEF minTransformScale, maxTransformScale, Quot
<1>2. z \in Nat \ {0}
    BY PreviewAssumption
<1>3. transformInfo' = [transformInfo EXCEPT !.scale = -500]
    BY <1>1, <1>2 DEF onZoom
<1>4. QED
    BY <1>3 DEF TypeOK

(***************************************************************************)
(* Once the image has reported a positive scale a, onZoom keeps the scale *)
(* between MIN_SCALE / a and MAX_SCALE / a, whatever it is asked for: the  *)
(* two bounds are ordered, so the clamp lands inside them.                 *)
(***************************************************************************)
THEOREM ZoomAfterLoad ==
    ASSUME TypeOK,
           NEW a \in Nat \ {0}, transformInfo.initActualScale = a,
           NEW z \in ZoomScales, onZoom(z)
    PROVE  transformInfo'.scale \in minTransformScale(a) .. maxTransformScale(a)
<1>1. /\ minTransformScale(a) = 100 \div a
      /\ maxTransformScale(a) = 5000 \div a
      /\ 100 \div a <= 5000 \div a
    BY DEF minTransformScale, maxTransformScale, Quot
<1>2. z \in Nat \ {0}
    BY PreviewAssumption
<1>3. transformInfo' = [transformInfo EXCEPT !.scale =
                           IF z <= 100 \div a THEN 100 \div a
                           ELSE IF z >= 5000 \div a THEN 5000 \div a
                           ELSE z]
    BY <1>1 DEF onZoom
<1>4. transformInfo'.scale \in (100 \div a) .. (5000 \div a)
    BY <1>1, <1>2, <1>3 DEF TypeOK
<1>5. QED
    BY <1>1, <1>4


=============================================================================
