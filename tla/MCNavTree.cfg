CONSTANTS
  top = top
  first = first
  page = page
  anchor = anchor
  Top = top
  Node <- MCNode
  Children <- MCChildren
  Lazy = {page}
  Url <- MCUrl
  toroot = "p"
  Hashes <- MCHashes
  LineHashes = {"#l1"}
  breadcrumbs <- MCBreadcrumbs
  IndexFile <- MCIndexFile
  KeptLinks <- MCKeptLinks
  ShowsChildren = FALSE
  MaxScripts = 2
  MaxAnimations = 1
SPECIFICATION NavSpec
INVARIANTS SelectedIsPlace SyncKeepsNoLink
