SPECIFICATION GeometrySpec
CONSTANTS
  Descs <- MCDescs
  DeviceFormats <- MCDeviceFormats
  PitchAligns <- MCPitchAligns
  Builds <- MCBuilds
  Formats = {"YV12"}
INVARIANTS
  ImportSameSize
