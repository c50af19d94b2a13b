----------------------------- MODULE MCDownload -----------------------------
(* Instances of Download for TLC: a file of three blocks on one or two       *)
(* servers, or on one whose file_sources row was never written.              *)
EXTENDS Download

CONSTANTS s1, s2

AnyStart == {<<>>, <<s1>>, <<s1, s2>>}
OneSource == {<<s1>>}
TwoSources == {<<s1, s2>>}
=============================================================================
