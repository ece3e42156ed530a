-------------------------- MODULE MCDownloadManager --------------------------
(***************************************************************************)
(* Instances of DownloadManager for TLC.  In "small" two calls of          *)
(* download() share a URI and one of them has a second file with an        *)
(* alternative URI; in "wide" three calls compete for the slots, and every *)
(* URI but one is wanted by two of them.                                   *)
(***************************************************************************)
EXTENDS DownloadManager, TLC

CONSTANTS c1, c2, c3, e1, e2, e3, e4, u1, u2, u3

SmallOwner == (e1 :> c1) @@ (e2 :> c1) @@ (e3 :> c2)
SmallUris == (e1 :> <<u1>>) @@ (e2 :> <<u2, u3>>) @@ (e3 :> <<u1>>)

WideOwner == (e1 :> c1) @@ (e2 :> c1) @@ (e3 :> c2) @@ (e4 :> c3)
WideUris == (e1 :> <<u1>>) @@ (e2 :> <<u2>>) @@ (e3 :> <<u1, u2>>) @@ (e4 :> <<u3>>)
=============================================================================
