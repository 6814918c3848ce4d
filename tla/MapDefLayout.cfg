\* Both structs, every pair of header versions that added fields, the four
\* native ABIs of the loader.
CONSTANTS
  NativeABIs = {"x86_64", "arm64", "x86", "arm"}
  Versions = {0, 1, 2, 18, 32, 33, 38}
SPECIFICATION Spec
INVARIANT FieldsAgree
