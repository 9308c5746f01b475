------------------------------- MODULE MCBoot ------------------------------
(***************************************************************************)
(* Sound machines, and machines with one or two defects.  The surfaces are *)
(* 7 to 9 pixels wide, of one to three bytes each, with and without        *)
(* padding; one is too narrow for seven bars, two are malformed.           *)
(***************************************************************************)
EXTENDS Boot

Channel(size, shift) == [size |-> size, shift |-> shift]

Layout(w, h, pitch, bpp, r, g, b) ==
  [rgb |-> TRUE, width |-> w, height |-> h, pitch |-> pitch, bpp |-> bpp,
   red |-> r, green |-> g, blue |-> b]

Bytes332(w, h, pitch) ==
  Layout(w, h, pitch, 8, Channel(3, 5), Channel(3, 2), Channel(2, 0))
Words565(w, h, pitch) ==
  Layout(w, h, pitch, 16, Channel(5, 11), Channel(6, 5), Channel(5, 0))
Bytes888(w, h, pitch) ==
  Layout(w, h, pitch, 24, Channel(8, 16), Channel(8, 8), Channel(8, 0))
Overlapping ==
  Layout(8, 1, 16, 16, Channel(6, 10), Channel(6, 5), Channel(5, 0))
NotRgb == [Bytes332(8, 1, 8) EXCEPT !.rgb = FALSE]

SoundScreens ==
  {<<Words565(8, 2, 18)>>, <<Bytes888(7, 1, 21)>>, <<Bytes332(9, 3, 10)>>,
   <<NotRgb, Words565(8, 1, 16)>>}
BadScreens ==
  {<<>>, <<NotRgb>>, <<Words565(8, 2, 14)>>, <<Overlapping, Bytes332(7, 1, 7)>>,
   <<Bytes332(6, 2, 8)>>}

Required == {"revision", "hhdm", "memmap"}

Arches == {"x86_64", "aarch64"}

AllMachines ==
  [arch : Arches, build : {"normal", "panic", "exception"},
   uart : {"good", "absent", "dead"},
   answers : {Required} \cup {Required \ {a} : a \in Required},
   tables : {"free", "ours", "other", "bad"},
   framebuffers : SoundScreens \cup BadScreens,
   memory : {"ample", "tiny", "none"}]

Count(P) == IF P THEN 1 ELSE 0

MCMachines ==
  {m \in AllMachines :
     /\ m.arch = "x86_64" => m.tables = "free"
     /\ m.arch = "aarch64" => m.uart = "good"
     /\ Count(m.uart # "good") + Count(m.answers # Required)
          + Count(m.tables \in {"other", "bad"})
          + Count(m.framebuffers \in BadScreens)
          + Count(m.memory = "tiny") + Count(m.build # "normal") <= 2}
=============================================================================
