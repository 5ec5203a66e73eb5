\* Requests, repeated requests and answers, host names of every kind.
SPECIFICATION Spec
CONSTANTS
  Numbers <- SmallAndLarge
  Hostnames <- AllHostnames
  ReadModulus = 65536
  NoAddress = NoAddress
INVARIANTS TypeOK AcceptedAsSent RejectedKeepsHeader OnlyBackslashesDerail AnswerCarriesItsRequest
CHECK_DEADLOCK FALSE
