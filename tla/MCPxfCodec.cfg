SPECIFICATION Spec
CONSTANTS
  Types <- MCTypes
  Urls <- MCUrls
  Contexts <- MCContexts
INVARIANTS
  DecodesAsMeant
  MarshalReadsBack
  DiagnosticsAgree
  CanonicalMeansSame
  SecretsRouted
CHECK_DEADLOCK FALSE
