CONSTANTS
  Bytes = {"lf", "1", "quote", "lead", "cont"}
  LF = "lf"
  Utf8 <- SomeUtf8
  Json <- SomeJson
  MaxFrameBytes = 4
  MaxStream = 6
  Resolution = 3
  NotOrdered = NotOrdered
  Origins <- SomeOrigins
  Finals <- SomeFinals
  Times <- SomeTimes
  Fractions <- SomeFractions
  Offsets <- SomeOffsets
  Orderable <- SomeDays
  MaxDigits = 3
  MaxScale = 2
  MaxInput = 5
  Assets = {"btc", "usd"}
  Texts <- SomeTexts
  Operands <- SomeOperands
SPECIFICATION ValuesSpec
INVARIANTS
  SplitInvariant
  InstantsAreExact
  TextIsTheAmount
  ArithmeticIsExact
CHECK_DEADLOCK FALSE
