-------------------------- MODULE MCBufferGeometry --------------------------
(* BufferGeometry on a small instance, for TLC.                             *)
EXTENDS BufferGeometry

CONSTANTS Formats

(* Sizes around what the code rounds up to and compares with, and usages    *)
(* for each flag and each pair of flags the code looks at together.         *)
Sizes  == {<<1, 1>>, <<63, 65>>, <<66, 64>>, <<101, 7>>, <<16384, 3>>, <<3, 16385>>, <<0, 5>>}
Usages == {{}, {"EXTERNAL_DISP"}, {"SW_READ_OFTEN"}, {"HW_TEXTURE", "PROTECTED"}, {"CURSOR"},
           {"CURSOR", "HW_RENDER"}, {"CURSOR", "SW_WRITE_RARELY"}, {"HW_FB", "SW_WRITE_OFTEN"},
           {"HW_COMPOSER"}, {"SW_WRITE_OFTEN"}}

MCDescs == {[width |-> size[1], height |-> size[2], layers |-> layers, format |-> format,
             usage |-> usage] :
              size \in Sizes, layers \in {1, 2}, format \in Formats, usage \in Usages}

(* A device that supports every format the tables name.                     *)
MCDeviceFormats == {color_format_map[f] : f \in DOMAIN color_format_map} \ {"EXT_UNKNOWN"}

MCPitchAligns == {1, 64}

(* What Android.bp defines, then the macros that gralloc_gbm.h documents    *)
(* and a release before Android 15.                                         *)
MCBuilds == {{"NO_CURSOR_RENDERING", "ANDROID_15"}, {"ANDROID_15"},
             {"USE_SW_RENDER", "NO_CURSOR_ALIGNING", "ANDROID_15"}, {"USE_SW_RENDER"}}
=============================================================================
