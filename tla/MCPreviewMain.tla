---------------------------- MODULE MCPreviewMain ----------------------------
(***************************************************************************)
(* Three attachments, the first and last of them documents with an office *)
(* preview, so that moving between them races two requests.  Zooms and    *)
(* images whose actual scale makes both clamps bite.                       *)
(***************************************************************************)
EXTENDS PreviewMain

MCDocFiles == {0, 2}

\* A zoom far out and one far in; images at their size or twice it, so that
\* onZoom clamps to the minimum and to the maximum.
MCZoomScales == {5, 2000}

MCActualScales == {10, 20}

=============================================================================
