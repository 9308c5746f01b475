---------------------------- MODULE Framebuffer ----------------------------
(***************************************************************************)
(* The linear framebuffer (framebuffer.rs): the layout the loader hands    *)
(* over, its validation, pixels as little-endian words in video memory,    *)
(* and the colour bars painted and read back at boot.                      *)
(*                                                                         *)
(* A layout is a record [rgb, width, height, pitch, bpp, red, green, blue] *)
(* whose channels are records [size, shift], as struct limine_framebuffer  *)
(* has them.  Video memory is a function from byte addresses to bytes,     *)
(* and goes on behind the last row.                                        *)
(***************************************************************************)
EXTENDS Integers, Sequences, SequencesExt

CONSTANT VramSize    \* the bytes of video memory that are followed

ASSUME VramAssumption == VramSize \in Nat

VARIABLES surface,   \* the captured layout, or <<>>
          vram       \* the bytes of video memory

surfaceVars == <<surface, vram>>

None == <<>>
FirmwareByte == 238

SurfaceInit ==
  /\ surface = None
  /\ vram = [a \in 0..VramSize - 1 |-> FirmwareByte]
-----------------------------------------------------------------------------
(* Validation. *)
ChannelFits(c, bpp) == c.size # 0 /\ c.shift + c.size <= bpp
ChannelBits(c) == c.shift .. c.shift + c.size - 1

BytesPerPixel(l) == l.bpp \div 8

(* A bug to compare with: rows may overlap. *)
MutantFromLayout(l) ==
  /\ l.width # 0 /\ l.height # 0 /\ l.pitch # 0
  /\ l.bpp # 0 /\ l.bpp % 8 = 0 /\ l.bpp <= 64
  /\ \A c \in {l.red, l.green, l.blue} : ChannelFits(c, l.bpp)
  /\ ChannelBits(l.red) \cap ChannelBits(l.green) = {}
  /\ ChannelBits(l.green) \cap ChannelBits(l.blue) = {}
  /\ ChannelBits(l.blue) \cap ChannelBits(l.red) = {}

FromLayout(l) ==
  /\ l.width # 0 /\ l.height # 0 /\ l.pitch # 0
  /\ l.bpp # 0 /\ l.bpp % 8 = 0 /\ l.bpp <= 64
  /\ \A c \in {l.red, l.green, l.blue} : ChannelFits(c, l.bpp)
  /\ ChannelBits(l.red) \cap ChannelBits(l.green) = {}
  /\ ChannelBits(l.green) \cap ChannelBits(l.blue) = {}
  /\ ChannelBits(l.blue) \cap ChannelBits(l.red) = {}
  /\ l.pitch >= l.width * BytesPerPixel(l)
-----------------------------------------------------------------------------
(* Pixels.  The stores of 8, 4, 2 and any other number of bytes all put    *)
(* the word's low bytes at the offset, the lowest first.  TwoTo and the    *)
(* word read back are functions, as they are reasoned about.               *)
TwoTo(n) ==
  LET power[i \in 0..n] == IF i = 0 THEN 1 ELSE 2 * power[i - 1]
  IN  power[n]

EncodeChannel(c, value) ==
  ((value * (TwoTo(c.size) - 1)) \div 255) * TwoTo(c.shift)

Encode(l, color) ==
  EncodeChannel(l.red, color[1]) + EncodeChannel(l.green, color[2])
    + EncodeChannel(l.blue, color[3])

Offset(l, x, y) == y * l.pitch + x * BytesPerPixel(l)
ByteOf(word, i) == (word \div TwoTo(8 * i)) % 256

ReadRawPixel(l, mem, x, y) ==
  LET pixel[i \in 0..BytesPerPixel(l)] ==
        IF i = 0 THEN 0
        ELSE pixel[i - 1] + mem[Offset(l, x, y) + i - 1] * TwoTo(8 * (i - 1))
  IN  pixel[BytesPerPixel(l)]

(* fill_rect's bounds check, and its two loops. *)
Inside(l, x, y, w, h) ==
  w # 0 /\ h # 0 /\ x + w <= l.width /\ y + h <= l.height

(* A bug to compare with: rows as long as the pixels in them. *)
MutantFilled(l, mem, x, y, w, h, color) ==
  LET pixels == (x..x + w - 1) \X (y..y + h - 1)
      hit(a) == {p \in pixels :
                   a - (p[2] * l.width + p[1]) * BytesPerPixel(l)
                     \in 0..BytesPerPixel(l) - 1}
  IN  [a \in DOMAIN mem |->
         IF hit(a) = {} THEN mem[a]
         ELSE LET p == CHOOSE p \in hit(a) : TRUE
              IN  ByteOf(Encode(l, color),
                         a - (p[2] * l.width + p[1]) * BytesPerPixel(l))]

Filled(l, mem, x, y, w, h, color) ==
  LET pixels == (x..x + w - 1) \X (y..y + h - 1)
      hit(a) == {p \in pixels :
                   a - Offset(l, p[1], p[2]) \in 0..BytesPerPixel(l) - 1}
  IN  [a \in DOMAIN mem |->
         IF hit(a) = {} THEN mem[a]
         ELSE LET p == CHOOSE p \in hit(a) : TRUE
              IN  ByteOf(Encode(l, color), a - Offset(l, p[1], p[2]))]
-----------------------------------------------------------------------------
(* The colour bars: white, yellow, cyan, green, magenta, red, blue. *)
BAR_COLORS ==
  <<<<255, 255, 255>>, <<255, 255, 0>>, <<0, 255, 255>>, <<0, 255, 0>>,
    <<255, 0, 255>>, <<255, 0, 0>>, <<0, 0, 255>>>>

BarStart(l, i) == (l.width * i) \div 7
BarEnd(l, i) == (l.width * (i + 1)) \div 7

(* Bar i of draw_color_bars, refused when a narrow surface leaves it empty. *)
BarFits(i) ==
  Inside(surface, BarStart(surface, i), 0,
         BarEnd(surface, i) - BarStart(surface, i), surface.height)

DrawBar(i) ==
  vram' = Filled(surface, vram, BarStart(surface, i), 0,
                 BarEnd(surface, i) - BarStart(surface, i), surface.height,
                 BAR_COLORS[i + 1])

SampleRows(l) == {l.height \div 4, l.height \div 2, (l.height * 3) \div 4}

BarCentre(l, i) == BarStart(l, i) + (BarEnd(l, i) - BarStart(l, i)) \div 2

VerifyColorBars ==
  \A i \in 0..6 : \A y \in SampleRows(surface) :
    ReadRawPixel(surface, vram, BarCentre(surface, i), y)
      = Encode(surface, BAR_COLORS[i + 1])

(* init_from_boot_info: the first framebuffer with the RGB memory model is *)
(* taken or refused, whatever comes after it.                              *)
FirstRgb(framebuffers) == SelectInSeq(framebuffers, LAMBDA l : l.rgb)

Qualifies(framebuffers) ==
  /\ FirstRgb(framebuffers) # 0
  /\ FromLayout(framebuffers[FirstRgb(framebuffers)])

Capture(framebuffers) ==
  /\ Qualifies(framebuffers)
  /\ surface' = framebuffers[FirstRgb(framebuffers)]
-----------------------------------------------------------------------------
(* The bytes that belong to a pixel of the surface. *)
PixelBytes ==
  {Offset(surface, x, y) + i :
     x \in 0..surface.width - 1, y \in 0..surface.height - 1,
     i \in 0..BytesPerPixel(surface) - 1}

(* Drawing touches pixels and nothing else: what pads a row, and what lies *)
(* behind the last one, is as the firmware left it (write_unchecked).      *)
PaddingUntouched ==
  \A a \in DOMAIN vram :
    (surface = None \/ a \notin PixelBytes) => vram[a] = FirmwareByte

(* Every column of the surface belongs to one bar, in order and of equal   *)
(* width to within a pixel, and every pixel of it has the bar's colour, not*)
(* only the three that verify_color_bars reads (draw_color_bars).          *)
BarAt(x) == (7 * (x + 1) - 1) \div surface.width

BarsFromEdgeToEdge ==
  \A x \in 0..surface.width - 1, y \in 0..surface.height - 1 :
    ReadRawPixel(surface, vram, x, y)
      = Encode(surface, BAR_COLORS[BarAt(x) + 1])
=============================================================================
