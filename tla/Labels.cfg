\* A gateway with a namespace: own labels, shared labels, both, or an entry of services.json.
CONSTANTS
  None = None
  Namespace = TRUE
  Item <- MCItem
  GlobMatches <- MCGlobMatches
  Param <- MCParam
  Doc <- MCDoc
  ListItem <- MCListItem
  Pieces <- MCPieces
  Override <- MCOverride
  OverrideOf <- MCOverrideOf
  OverrideValue <- MCOverrideValue
  HostValue = {"", "crm.internal"}
  UrlValue = {"", "https://docs"}
  PrefixValue <- MCEntryPrefix
  EntryName = {"", "crm"}
  ItemsOf <- MCItemsOf
  PrefixLabel <- MCPrefix
  NameLabel = {""}
  MaxLabels = 3
SPECIFICATION SpecLabels
INVARIANTS ExposureAsDocumented AccessAsDocumented FiltersAreComplements EntryAsDeclared NoNamespaceNeeded
PROPERTIES OwnLabelsWin
