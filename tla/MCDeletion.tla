----------------------------- MODULE MCDeletion -----------------------------
(* A scene with two markers, and three images in a folder and a zip. *)
EXTENDS FileDeletion, TLC

CONSTANTS s, m1, m2, i, j, z, g, u, v

MCSceneOf == (m1 :> s) @@ (m2 :> s)

\* i is in both galleries, j in the zip's file only.
MCAttached == (g :> {i}) @@ (z :> {i, j})

Wish(kind, ids, media, generated) ==
  [kind |-> kind, ids |-> ids, media |-> media, generated |-> generated]

Both(w1, w2) == (u :> w1) @@ (v :> w2)

Situation(table, w1, w2, clean, at1, at2) ==
  [rows |-> table, second |-> (m1 :> at1) @@ (m2 :> at2), asked |-> Both(w1, w2),
   clean |-> clean]

DestroyScene == Wish("SceneDestroy", <<s>>, TRUE, TRUE)
DestroyTwice == Wish("ScenesDestroy", <<s, s>>, TRUE, FALSE)
DestroyMarker == Wish("SceneMarkerDestroy", <<m1>>, FALSE, FALSE)
UpdateMarker == Wish("SceneMarkerUpdate", <<m2>>, FALSE, FALSE)
DestroyImages == Wish("ImagesDestroy", <<i, j>>, TRUE, TRUE)
DestroyGalleries == Wish("GalleryDestroy", <<g, z>>, TRUE, FALSE)
DestroyFolder == Wish("GalleryDestroy", <<g>>, TRUE, FALSE)

TheScene == {s, m1, m2}
TheImages == {i, j, z, g}

(***************************************************************************)
(* Two requests at a time: for the same scene, once in a list that names   *)
(* it twice; for a scene while it is cleaned, and a gallery that is not    *)
(* there; for a scene and its markers, at different seconds and at the     *)
(* same; for images while they are cleaned, and galleries that share them. *)
(***************************************************************************)
MCScenarios ==
  {Situation(TheScene, DestroyScene, DestroyTwice, FALSE, 1, 2),
   Situation(TheScene, DestroyScene, DestroyFolder, TRUE, 1, 2),
   Situation(TheScene, DestroyScene, DestroyMarker, FALSE, 1, 2),
   Situation(TheScene, DestroyMarker, UpdateMarker, FALSE, 1, 1),
   Situation(TheImages, DestroyImages, DestroyFolder, TRUE, 1, 1),
   Situation(TheImages, DestroyGalleries, DestroyImages, FALSE, 1, 1)}

MCRegenerated == {Preview(s, 1)}
=============================================================================
