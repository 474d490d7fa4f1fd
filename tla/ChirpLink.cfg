SPECIFICATION Spec
CONSTANTS
  CRP_BUFSIZE = 24
  CRP_MAX_ARGS = 4
  CRP_MAX_HEADER_LEN = 24
  m_retries = 2
  Messages <- MCMessages
  MaxMessages = 2
INVARIANTS
  TypeOK
  ReceivedIsSent
  InOrder
  SentIsReceived
  BufferHolds
