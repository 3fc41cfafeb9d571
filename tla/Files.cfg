SPECIFICATION Spec
CONSTANTS
  Name = {"s p", "n.md", "N.md", "r s.rs", "b&gt", "css"}
  Special = {"s p", "r s.rs", "b&gt"}
  Spelling <- MCSpelling
  Content = {"prose", "script", "data", "css"}
  Utf8 = {"prose", "script", "css"}
  Shebang = {"script"}
  Events <- MCEvents
  Language = {"rust"}
  Hard <- MCHard
  Markdown = {"n.md", "N.md"}
  Highlighted = {"r s.rs", "css"}
  Mangled = {"b&gt"}
  Path <- MCPath
  InitialTrees <- MCInitialTrees
  Size <- MCSize
  Css = "css"
  CssContent = "css"
  Configs <- MCConfigs
  Typed <- MCTyped
  MaxEdits = 1
INVARIANTS
  LinksLead
  ClickTurnsOver
  RenderLinkRenders
  NothingLost
  ValidatorsFit
CHECK_DEADLOCK FALSE
