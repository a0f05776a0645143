CONSTANTS
  VLenB = 4 VRegs = 8 MemSize = 24 VPageSize = 4
  Insns <- WholeInsns
SPECIFICATION MisalignedSpec
INVARIANTS AccessIsTheInsn
CHECK_DEADLOCK FALSE
