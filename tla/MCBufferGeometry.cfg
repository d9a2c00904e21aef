SPECIFICATION GeometrySpec
CONSTANTS
  Descs <- MCDescs
  DeviceFormats <- MCDeviceFormats
  PitchAligns <- MCPitchAligns
  Builds <- MCBuilds
  Formats = {"RGBA_8888", "RGBX_8888", "BGRA_8888", "RGB_888", "RGB_565", "YCRCB_420_SP", "YCBCR_420_888", "RGBA_1010102", "Y8", "Y16", "RGBA_FP16", "IMPLEMENTATION_DEFINED"}
INVARIANTS
  ImportSameSize
  StrideRight
  PlanesInBuffer
  LayoutMatchesFourcc
