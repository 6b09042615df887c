SPECIFICATION FairSpec
CONSTANTS
  Options = {"TTYPE", "NEW_ENVIRON", "BINARY", "CHARSET"}
  always_will <- Nobody
  always_do <- Nobody
  always_wont <- Nobody
  always_dont <- Nobody
  passive_do <- Nobody
  NoCompression = {}
  EnvironBatches <- OneBatch
  CharsetAnswer <- Accepts
  Configurations <- SomeConfigurations
  default_encoding = "utf8"
  Offers <- SomeOffers
  Known <- Codecs
  MaxRequests = 1
  MaxTexts = 1
INVARIANTS
  Understood
PROPERTIES
  Converges
\* A negotiation ends.
CHECK_DEADLOCK FALSE
