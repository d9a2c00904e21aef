---------------------------- MODULE BufferGeometry ----------------------------
(***************************************************************************)
(* The sizes, strides and flags of one GBM buffer from the request of a    *)
(* client to the metadata the mapper answers: the service checks and       *)
(* converts the descriptor and allocates, the numbers travel in the        *)
(* handle, the mapper computes its own from them, imports, and is queried. *)
(*                                                                         *)
(* libgbm is external: which formats the device has, that the pitch of a   *)
(* BO is its row rounded up, that an imported BO has the size and pitch it *)
(* is imported with, and the rules of its DRI backend that the comments of *)
(* gralloc_gbm_is_allocator_desc_supported quote.                          *)
(***************************************************************************)
EXTENDS GbmFormats

CONSTANTS
  Descs,          \* the descriptors clients ask for
  DeviceFormats,  \* GBM formats the device supports
  PitchAligns,    \* what a device may round a pitch up to, in bytes
  Builds          \* sets of macros a library is built with

Macros == {"USE_SW_RENDER", "NO_CURSOR_RENDERING", "NO_CURSOR_ALIGNING", "ANDROID_15"}

ASSUME GeometryAssumption ==
  /\ Descs \subseteq [width: Nat, height: Nat, layers: Nat, format: STRING,
                      usage: SUBSET STRING]
  /\ DeviceFormats \subseteq STRING
  /\ PitchAligns \subseteq Nat \ {0}
  /\ Builds \subseteq SUBSET Macros

VARIABLES
  build,     \* the macros of the library in both processes
  phase,     \* none, asked, failed, allocated, imported, queried
  desc,      \* the request
  handle,    \* the handle in the reply
  stride,    \* AllocationResult.stride
  bo,        \* the allocated BO, then the imported one
  allocated, \* what the BO was when it was allocated
  info,      \* android_buffer_info_t of a query
  layouts    \* PLANE_LAYOUTS of a query

geometry_vars == <<build, phase, desc, handle, stride, bo, allocated, info, layouts>>
None == [phase |-> "none"]

-----------------------------------------------------------------------------
Larger(a, b) == IF a > b THEN a ELSE b
Align(a, b)  == ((a + b - 1) \div b) * b

WidthMax  == 16384
HeightMax == 16384

CpuBits    == {"SW_READ_OFTEN", "SW_READ_RARELY", "SW_WRITE_OFTEN", "SW_WRITE_RARELY"}
RenderBits == {"HW_TEXTURE", "HW_RENDER", "HW_2D", "HW_COMPOSER"}

(* The GBM flags of a usage, before they are looked at together.            *)
RawFlags(usage) ==
  LET When(c, flag) == IF c THEN {flag} ELSE {} IN
       When(usage \cap CpuBits # {}, "LINEAR")
  \cup When(usage \cap {"SW_WRITE_OFTEN", "SW_WRITE_RARELY"} # {}
              /\ "USE_SW_RENDER" \in build, "WRITE")
  \cup When(usage \cap RenderBits # {}, "RENDERING")
  \cup When(usage \cap {"HW_COMPOSER", "HW_FB"} # {}, "SCANOUT")
  \cup When("PROTECTED" \in usage, "PROTECTED")
  \cup When("CURSOR" \in usage /\ "ANDROID_15" \in build, "CURSOR")

(* A dumb buffer for a cursor or a scanout must have one of their formats.  *)
WrongDumbFormat(flags, format) ==
  /\ "WRITE" \in flags
  /\ \/ "CURSOR" \in flags /\ format # "ARGB8888"
     \/ "SCANOUT" \in flags /\ format \notin {"XRGB8888", "XBGR8888"}

gralloc_gbm_calculate_gbm_flags(usage, format) ==
  LET flags == RawFlags(usage) IN
  IF /\ ~WrongDumbFormat(flags, format)
     /\ {"CURSOR", "RENDERING"} \subseteq flags
     /\ "NO_CURSOR_RENDERING" \in build
  THEN flags \ {"CURSOR"} ELSE flags

(* generateGrallocGenericDesc: one layer, not empty.                        *)
Convertible(d) == d.width # 0 /\ d.height # 0 /\ d.layers <= 1

(* What the comments quote of gbm_dri.c: the formats of the device, never a *)
(* cursor to render to; create_dumb() makes cursors and scanouts only.      *)
gbm_device_is_format_supported(format, flags) ==
  format \in DeviceFormats /\ ~({"CURSOR", "RENDERING"} \subseteq flags)
DriCreates(format, flags) ==
  /\ gbm_device_is_format_supported(format, flags)
  /\ "WRITE" \in flags =>
       \/ "CURSOR" \in flags /\ format = "ARGB8888"
       \/ "SCANOUT" \in flags /\ format \in {"XRGB8888", "XBGR8888"}

gralloc_gbm_is_allocator_desc_supported(d) ==
  LET format == color_fmt_a2g(d.format)
      flags  == gralloc_gbm_calculate_gbm_flags(d.usage, format)
  IN
  /\ d.width <= WidthMax /\ d.height <= HeightMax
  /\ d.usage # {}
  /\ ~WrongDumbFormat(flags, format)
  /\ {"CURSOR", "RENDERING"} \subseteq flags => "NO_CURSOR_RENDERING" \in build
  /\ gbm_device_is_format_supported(format, flags)

gralloc_gbm_calculate_android_pixel_stride(android_format, pitch) ==
  pitch \div color_bytes_per_pixel(color_fmt_a2g(android_format))

(* Cursors are at least 64 by 64, in multiples of 4.                        *)
CursorSide(n) == IF "NO_CURSOR_ALIGNING" \in build THEN Larger(n, 64) ELSE Align(Larger(n, 64), 4)

(* The size of the BO of a request. YV12 is asked for as GR88: half the     *)
(* width, rows for the chroma planes added.                                 *)
NewSize(d, flags) ==
  LET height == IF "CURSOR" \in flags THEN CursorSide(d.height) ELSE d.height IN
  IF d.format = "YV12"
  THEN [width |-> Align(d.width, 32) \div 2, height |-> height + Align(d.height, 2) \div 2]
  ELSE [width |-> IF "CURSOR" \in flags THEN CursorSide(d.width) ELSE d.width, height |-> height]

(* Faulty variant: imported cursors are rounded to whole tiles.             *)
ImportSizeTiled(h, flags) ==
  IF "CURSOR" \in flags
  THEN [width |-> Align(Larger(h.width, 64), 64), height |-> Align(Larger(h.height, 64), 64)]
  ELSE [width |-> h.width, height |-> h.height]

(* The size a handle is imported with: the same adjustments, in the other   *)
(* order, of the size in the handle.                                        *)
ImportSize(h, flags) ==
  IF "CURSOR" \in flags
  THEN [width |-> CursorSide(h.width), height |-> CursorSide(h.height)]
  ELSE IF h.format = "YV12"
  THEN [width |-> Align(h.width, 32) \div 2, height |-> h.height + Align(h.height, 2) \div 2]
  ELSE [width |-> h.width, height |-> h.height]

(* Bytes in the first plane for one pixel, as libgbm knows its formats.     *)
RowBytes(format) ==
  CASE format \in {"R8", "YUV422", "YVU420", "YUV420"}         -> 1
    [] format \in {"R16", "GR88", "BGR565", "VYUY", "P010"}    -> 2
    [] format = "BGR888"                                       -> 3
    [] format = "ABGR16161616F"                                -> 8
    [] OTHER                                                   -> 4

-----------------------------------------------------------------------------
GeometryInit ==
  /\ build \in Builds
  /\ phase = "none"
  /\ desc = None /\ handle = None /\ stride = 0
  /\ bo = None /\ allocated = None /\ info = None /\ layouts = <<>>

(* isSupported says yes. A request it refuses changes nothing.              *)
Ask(d) ==
  /\ phase = "none"
  /\ Convertible(d)
  /\ gralloc_gbm_is_allocator_desc_supported(d)
  /\ phase' = "asked"
  /\ desc' = d
  /\ UNCHANGED <<build, handle, stride, bo, allocated, info, layouts>>

(* Faulty variant: the handle is filled in with the pixel stride.           *)
AllocatePixels(pitch_align) ==
  LET format == color_fmt_a2g(desc.format)
      flags  == gralloc_gbm_calculate_gbm_flags(desc.usage, format)
      size   == NewSize(desc, flags)
      pitch  == Align(size.width * RowBytes(format), pitch_align)
      pixels == gralloc_gbm_calculate_android_pixel_stride(desc.format, pitch)
  IN
  /\ phase = "asked"
  /\ DriCreates(format, flags)
  /\ phase' = "allocated"
  /\ handle' = [width |-> size.width, height |-> size.height, format |-> desc.format,
                usage |-> desc.usage, stride |-> pixels]
  /\ bo' = [width |-> size.width, height |-> size.height, format |-> format, stride |-> pitch]
  /\ allocated' = bo'
  /\ stride' = pixels
  /\ UNCHANGED <<build, desc, info, layouts>>

(* allocate2: gralloc_gbm_android_buffer_new makes the BO and the handle.   *)
Allocate(pitch_align) ==
  LET format == color_fmt_a2g(desc.format)
      flags  == gralloc_gbm_calculate_gbm_flags(desc.usage, format)
      size   == NewSize(desc, flags)
      pitch  == Align(size.width * RowBytes(format), pitch_align)
  IN
  /\ phase = "asked"
  /\ DriCreates(format, flags)
  /\ phase' = "allocated"
  /\ handle' = [width |-> size.width, height |-> size.height, format |-> desc.format,
                usage |-> desc.usage, stride |-> pitch]
  /\ bo' = [width |-> size.width, height |-> size.height, format |-> format, stride |-> pitch]
  /\ allocated' = bo'
  /\ stride' = gralloc_gbm_calculate_android_pixel_stride(desc.format, pitch)
  /\ UNCHANGED <<build, desc, info, layouts>>

(* gbm_bo_create says no to flags that the check let through.               *)
AllocateFail ==
  LET format == color_fmt_a2g(desc.format) IN
  /\ phase = "asked"
  /\ ~DriCreates(format, gralloc_gbm_calculate_gbm_flags(desc.usage, format))
  /\ phase' = "failed"
  /\ UNCHANGED <<build, desc, handle, stride, bo, allocated, info, layouts>>

(* The mapper of a client imports the handle; the allocator's BO is gone.   *)
Import ==
  LET format == color_fmt_a2g(handle.format)
      flags  == gralloc_gbm_calculate_gbm_flags(handle.usage, format)
      size   == ImportSize(handle, flags)
  IN
  /\ phase = "allocated"
  /\ phase' = "imported"
  /\ bo' = [width |-> size.width, height |-> size.height, format |-> format,
            stride |-> handle.stride]
  /\ UNCHANGED <<build, desc, handle, stride, allocated, info, layouts>>

(* Faulty variant: the stride of a plane is left in pixels.                 *)
FilledInPixels(plane, i) ==
  [plane            |-> plane,
   offsetInBytes    |-> 0,
   strideInBytes    |-> i.stride,
   totalSizeInBytes |-> i.stride * i.height,
   widthInSamples   |-> i.width \div plane.horizontalSubsampling,
   heightInSamples  |-> i.height \div plane.verticalSubsampling]

(* The planes of PLANE_LAYOUTS: all of them at offset 0, with the stride of *)
(* the first.                                                               *)
FilledIn(plane, i) ==
  [plane            |-> plane,
   offsetInBytes    |-> 0,
   strideInBytes    |-> i.stride * color_bytes_per_pixel(i.gbm_format),
   totalSizeInBytes |-> i.stride * color_bytes_per_pixel(i.gbm_format) * i.height,
   widthInSamples   |-> i.width \div plane.horizontalSubsampling,
   heightInSamples  |-> i.height \div plane.verticalSubsampling]

(* getStandardMetadata: WIDTH, HEIGHT, STRIDE, ALLOCATION_SIZE, and         *)
(* PLANE_LAYOUTS for formats that have them.                                *)
Query ==
  LET i == [width |-> bo.width, height |-> bo.height, gbm_format |-> bo.format,
            size |-> bo.stride * bo.height,
            stride |-> gralloc_gbm_calculate_android_pixel_stride(handle.format, bo.stride)]
      planes == getPlaneLayouts(i.gbm_format)
  IN
  /\ phase = "imported"
  /\ phase' = "queried"
  /\ info' = i
  /\ layouts' = IF HasPlaneLayouts(i.gbm_format)
                THEN [p \in DOMAIN planes |-> FilledIn(planes[p], i)] ELSE <<>>
  /\ UNCHANGED <<build, desc, handle, stride, bo, allocated>>

(* freeBuffer, or the client gives up; another request may follow.          *)
Free ==
  /\ phase \in {"failed", "queried"}
  /\ phase' = "none"
  /\ desc' = None /\ handle' = None /\ stride' = 0
  /\ bo' = None /\ allocated' = None /\ info' = None /\ layouts' = <<>>
  /\ UNCHANGED build

GeometryNext ==
  \/ \E d \in Descs : Ask(d)
  \/ \E a \in PitchAligns : Allocate(a)
  \/ AllocateFail \/ Import \/ Query \/ Free

GeometrySpec == GeometryInit /\ [][GeometryNext]_geometry_vars

-----------------------------------------------------------------------------
(* The variables have their types; a stride is never an error code.         *)
GeometryTypeOK ==
  /\ build \in Builds
  /\ phase \in {"none", "asked", "failed", "allocated", "imported", "queried"}
  /\ desc \in Descs \cup {None}
  /\ stride \in Nat
  /\ phase \in {"allocated", "imported", "queried"} =>
       /\ handle.width \in Nat /\ handle.height \in Nat /\ handle.stride \in Nat
       /\ bo.width \in Nat /\ bo.height \in Nat /\ bo.stride \in Nat
  /\ phase = "queried" => info.stride \in Nat /\ info.size \in Nat

(* gralloc_gbm_android_buffer_new and ..._import adjust sizes for cursors   *)
(* and YV12 each on its own, the second on top of the first: the BO the     *)
(* mapper imports has the size of the BO the service made.                  *)
ImportSameSize ==
  phase \in {"imported", "queried"} =>
    bo.width = allocated.width /\ bo.height = allocated.height

(* The stride the allocator replies and the STRIDE the mapper answers are   *)
(* computed in two processes from two pitches: they agree.                  *)
StrideAgrees == phase = "queried" => info.stride = stride

(* "Return the stride in pixels" (gralloc_gbm.c:249): as many as fit into   *)
(* the pitch, although bits per pixel come from a table of the repository   *)
(* and the pitch from libgbm.                                               *)
StrideInPixels ==
  phase = "queried" => info.stride = bo.stride \div RowBytes(bo.format)

(* Both: of one buffer every process has one stride, that of its rows.      *)
StrideRight == StrideAgrees /\ StrideInPixels

(* A client that walks PLANE_LAYOUTS stays in the buffer: the samples of a  *)
(* row fit into its stride and the rows into ALLOCATION_SIZE.               *)
PlanesInBuffer ==
  \A p \in DOMAIN layouts : LET l == layouts[p] IN
    /\ l.widthInSamples * l.plane.sampleIncrementInBits <= 8 * l.strideInBytes
    /\ l.offsetInBytes + l.totalSizeInBytes <= info.size
    /\ l.heightInSamples <= info.height

(* The strideInBytes the mapper answers is the pitch that the handle has as *)
(* "the stride in bytes" (gralloc_handle.h:62).                             *)
PlaneStrideIsPitch ==
  \A p \in DOMAIN layouts : layouts[p].strideInBytes = handle.stride

(* MapperPlaneLayouts.hpp:20: "All formats in color_format_map[] should be  *)
(* supported."                                                              *)
LayoutsAnswered == phase = "queried" => layouts # <<>>

(* isSupported says no to what gbm_bo_create would refuse: the comment in   *)
(* gralloc_gbm_is_allocator_desc_supported quotes create_dumb() for that.   *)
SupportedIsCreatable == phase # "failed"

(* What gbm.h says of a format of one plane: its components, the highest    *)
(* bits first. An x stands for bits without a meaning.                      *)
RgbWords ==
  [ABGR8888 |-> <<<<"A", 8>>, <<"B", 8>>, <<"G", 8>>, <<"R", 8>>>>,
   XBGR8888 |-> <<<<"x", 8>>, <<"B", 8>>, <<"G", 8>>, <<"R", 8>>>>,
   ARGB8888 |-> <<<<"A", 8>>, <<"R", 8>>, <<"G", 8>>, <<"B", 8>>>>,
   XRGB8888 |-> <<<<"x", 8>>, <<"R", 8>>, <<"G", 8>>, <<"B", 8>>>>,
   RGBX8888 |-> <<<<"R", 8>>, <<"G", 8>>, <<"B", 8>>, <<"x", 8>>>>,
   BGR888   |-> <<<<"B", 8>>, <<"G", 8>>, <<"R", 8>>>>,
   BGR565   |-> <<<<"B", 5>>, <<"G", 6>>, <<"R", 5>>>>,
   RGB565   |-> <<<<"R", 5>>, <<"G", 6>>, <<"B", 5>>>>,
   R8       |-> <<<<"R", 8>>>>,
   R16      |-> <<<<"R", 16>>>>,
   GR88     |-> <<<<"G", 8>>, <<"R", 8>>>>]
OtherWords ==
  [ABGR2101010   |-> <<<<"A", 2>>, <<"B", 10>>, <<"G", 10>>, <<"R", 10>>>>,
   ABGR16161616F |-> <<<<"A", 16>>, <<"B", 16>>, <<"G", 16>>, <<"R", 16>>>>,
   VYUY          |-> <<<<"Y", 8>>, <<"CB", 8>>, <<"Y", 8>>, <<"CR", 8>>>>]

Word(format) == IF format \in DOMAIN RgbWords THEN RgbWords[format] ELSE OtherWords[format]

(* The components of a word, each where the lower ones end.                 *)
ComponentsOf(word) ==
  LET below[k \in 1..Len(word)] ==
        IF k = Len(word) THEN 0 ELSE below[k + 1] + word[k + 1][2]
  IN {At(word[k][1], below[k], word[k][2]) : k \in {j \in DOMAIN word : word[j][1] # "x"}}

MatchesFourcc(format) ==
  format \in DOMAIN RgbWords \cup DOMAIN OtherWords =>
    getPlaneLayouts(format)[1].components = ComponentsOf(Word(format))

(* The layout the mapper answers for a buffer has its components where      *)
(* gbm.h says the format has them.                                          *)
LayoutMatchesFourcc ==
  phase = "queried" /\ layouts # <<>> => MatchesFourcc(info.gbm_format)

(* The same of every format of the table, those that no Android format is   *)
(* mapped to included: "Return the plane layout for target GBM format       *)
(* color" (MapperPlaneLayouts.hpp:19).                                      *)
TableMatchesFourcc ==
  \A format \in DOMAIN RgbWords \cup DOMAIN OtherWords :
    phase = "none" => MatchesFourcc(format)
=============================================================================
