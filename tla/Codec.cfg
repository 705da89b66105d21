CONSTANTS
  Firsts  = {0, 1, 9, 10, 11, 99, 100, 101, 126, 127, 128, 169, 172, 192, 198, 203, 223, 224, 239, 240, 255}
  Seconds = {0, 15, 16, 17, 18, 19, 20, 31, 32, 51, 63, 64, 88, 127, 128, 168, 253, 254, 255}
  Thirds  = {0, 1, 2, 99, 100, 113, 255}
  NativeHeads = {0, 1, 255, 256, 257, 8192, 8193, 8194, 64511, 64512, 65023, 65024, 65151, 65152, 65215, 65216, 65279, 65280, 65535}
  OctetXor <- XorOctets
  Tag <- TagOctets
  BucketTicks = 1
  BucketWrap = 65536
  Mine <- TxidA
  Other <- TxidB
  Home <- HomeIp
  Callers <- SomeCallers
  MaxAttrs = 4
  Secrets = {1, 2}
  Times = {1, 65535}
SPECIFICATION LawsSpec
INVARIANTS MatchesTable EmbeddingIsTransparent NativeMatchesTable
INVARIANTS AddressSurvivesWire CutDatagramsRejected UnknownAttributesIgnored
INVARIANTS OverrunsHandled SignatureIsForThisRequest ReplyReadsAsDecided ChallengeCanBeMet
