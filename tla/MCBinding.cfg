SPECIFICATION Spec
CONSTANTS
  MaxSend = 2
  MaxWire = 3
  Styles <- MCStyles
  Cookies = {ck}
  UsesAddressing = TRUE
  TextAsBytes = TRUE
  None = None
INVARIANTS TypeOK ParsedIsHeld AtMostOneResend HeldAnswersLastSend
PROPERTIES RepeatsReply ImplementsCell
