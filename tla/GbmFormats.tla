------------------------------ MODULE GbmFormats ------------------------------
(***************************************************************************)
(* The tables that relate Android pixel formats, GBM formats, bits per     *)
(* pixel and plane layouts, and the functions that look them up. A format  *)
(* is named by its constant without the prefix HAL_PIXEL_FORMAT_ or        *)
(* GBM_FORMAT_, each table is a record or a function over those names.     *)
(***************************************************************************)
EXTENDS Integers, Sequences

(* Not a GBM format: (uint32_t) -EINVAL, what a failed lookup returns. It   *)
(* is never <= 0, so that no caller's test for failure catches it.          *)
BadFormat == "EINVAL"

color_format_map ==
  [RGBA_8888    |-> "ABGR8888",      RGBX_8888    |-> "XBGR8888",
   BGRA_8888    |-> "ARGB8888",      RGB_888      |-> "BGR888",
   RGB_565      |-> "BGR565",        YCBCR_422_SP |-> "YUV422",
   YCRCB_420_SP |-> "YVU420",        YCBCR_422_I  |-> "VYUY",
   YCBCR_420_888 |-> "YUV420",       RGBA_1010102 |-> "ABGR2101010",
   Y8           |-> "R8",            Y16          |-> "R16",
   YV12         |-> "GR88",          RGBA_FP16    |-> "ABGR16161616F",
   YCBCR_P010   |-> "P010",          EXT_UNKNOWN  |-> "EXT_UNKNOWN"]

color_fmt_a2g(format) ==
  IF format \in DOMAIN color_format_map THEN color_format_map[format] ELSE BadFormat

color_bpp_map ==
  [ABGR8888 |-> 32, XBGR8888 |-> 32, ARGB8888 |-> 32, BGR888 |-> 24, BGR565 |-> 16,
   YUV422 |-> 16, YVU420 |-> 12, VYUY |-> 32, YUV420 |-> 12, ABGR2101010 |-> 32,
   R8 |-> 8, R16 |-> 16, GR88 |-> 16, ABGR16161616F |-> 64,
   RGB565 |-> 16, NV12 |-> 8, NV21 |-> 16, RGBX8888 |-> 32, XRGB8888 |-> 32,
   EXT_UNKNOWN |-> 0]

(* A format that is not in the table has (uint8_t) -1 bits, and bytes.      *)
color_bpp(format) ==
  IF format \in DOMAIN color_bpp_map THEN color_bpp_map[format] ELSE 255

color_bytes_per_pixel(format) ==
  IF format \in DOMAIN color_bpp_map THEN color_bpp_map[format] \div 8 ELSE 255

-----------------------------------------------------------------------------
(* Plane layouts: a format is a sequence of planes, a plane a set of        *)
(* components, the bits from one sample to the next, and its subsampling.   *)
At(type, offset, size) == [type |-> type, offsetInBits |-> offset, sizeInBits |-> size]

Plane(components, increment, horizontal, vertical) ==
  [components |-> components, sampleIncrementInBits |-> increment,
   horizontalSubsampling |-> horizontal, verticalSubsampling |-> vertical]

(* One plane, every pixel sampled, of the format's bits per pixel.          *)
Packed(format, components) == <<Plane(components, color_bpp(format), 1, 1)>>

(* A plane of one 8-bit component.                                          *)
Bytes(type, horizontal, vertical) == Plane({At(type, 0, 8)}, 8, horizontal, vertical)

(* Faulty variant: green and blue of BGR565 overlap by a bit.               *)
RgbLayoutsOverlap ==
  [ABGR8888 |-> Packed("ABGR8888", {At("R", 0, 8), At("G", 8, 8), At("B", 16, 8), At("A", 24, 8)}),
   XBGR8888 |-> Packed("XBGR8888", {At("R", 0, 8), At("G", 8, 8), At("B", 16, 8)}),
   ARGB8888 |-> Packed("ARGB8888", {At("B", 0, 8), At("G", 8, 8), At("R", 16, 8), At("A", 24, 8)}),
   BGR888   |-> Packed("BGR888",   {At("R", 0, 8), At("G", 8, 8), At("B", 16, 8)}),
   BGR565   |-> Packed("BGR565",   {At("R", 0, 5), At("G", 5, 6), At("B", 10, 6)})]

RgbLayouts ==
  [ABGR8888 |-> Packed("ABGR8888", {At("R", 0, 8), At("G", 8, 8), At("B", 16, 8), At("A", 24, 8)}),
   XBGR8888 |-> Packed("XBGR8888", {At("R", 0, 8), At("G", 8, 8), At("B", 16, 8)}),
   ARGB8888 |-> Packed("ARGB8888", {At("B", 0, 8), At("G", 8, 8), At("R", 16, 8), At("A", 24, 8)}),
   BGR888   |-> Packed("BGR888",   {At("R", 0, 8), At("G", 8, 8), At("B", 16, 8)}),
   BGR565   |-> Packed("BGR565",   {At("R", 0, 5), At("G", 5, 6), At("B", 11, 5)})]

YuvLayouts ==
  [YUV422 |-> <<Bytes("Y", 1, 1), Bytes("CB", 2, 1), Bytes("CR", 2, 1)>>,
   YVU420 |-> <<Bytes("Y", 1, 1), Bytes("CR", 2, 2), Bytes("CB", 2, 2)>>,
   VYUY   |-> Packed("VYUY", {At("CR", 0, 8), At("Y", 8, 8), At("CB", 16, 8), At("Y", 24, 8)}),
   YUV420 |-> <<Bytes("Y", 1, 1), Bytes("CB", 2, 2), Bytes("CR", 2, 2)>>]

DeepLayouts ==
  [ABGR2101010 |-> Packed("ABGR2101010",
                     {At("R", 0, 10), At("G", 10, 10), At("B", 20, 10), At("A", 30, 2)}),
   R8   |-> Packed("R8",  {At("R", 0, 8)}),
   R16  |-> Packed("R16", {At("R", 0, 16)}),
   GR88 |-> Packed("GR88", {At("R", 0, 8), At("G", 8, 8)}),
   ABGR16161616F |-> Packed("ABGR16161616F",
                       {At("R", 0, 16), At("G", 16, 16), At("B", 32, 16), At("A", 48, 16)})]

AdditionalLayouts ==
  [RGB565 |-> Packed("RGB565", {At("B", 0, 5), At("G", 5, 6), At("R", 11, 5)}),
   NV12 |-> <<Bytes("Y", 1, 1), Plane({At("CB", 0, 8), At("CR", 8, 8)}, 16, 2, 2)>>,
   NV21 |-> <<Bytes("Y", 1, 1), Plane({At("CR", 0, 8), At("CB", 8, 8)}, 16, 2, 2)>>,
   RGBX8888 |-> Packed("RGBX8888", {At("B", 16, 8), At("G", 8, 8), At("R", 0, 8)}),
   XRGB8888 |-> Packed("XRGB8888", {At("B", 16, 8), At("G", 8, 8), At("R", 0, 8)})]

HasPlaneLayouts(format) ==
  format \in DOMAIN RgbLayouts \cup DOMAIN YuvLayouts
               \cup DOMAIN DeepLayouts \cup DOMAIN AdditionalLayouts

(* The planes of a format that has them; for others -EINVAL.                *)
getPlaneLayouts(format) ==
  CASE format \in DOMAIN RgbLayouts  -> RgbLayouts[format]
    [] format \in DOMAIN YuvLayouts  -> YuvLayouts[format]
    [] format \in DOMAIN DeepLayouts -> DeepLayouts[format]
    [] OTHER -> AdditionalLayouts[format]
=============================================================================
