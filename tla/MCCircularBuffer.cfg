SPECIFICATION Spec
CONSTANTS
  BUFFER_LENGTH = 3
  Values = {a, b, c}
INVARIANT TypeOK
INVARIANT Accounting
PROPERTY FifoSpec
