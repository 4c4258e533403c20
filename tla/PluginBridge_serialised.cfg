SPECIFICATION PreviewSpec
CONSTANTS
  h1 = h1
  h2 = h2
  h3 = h3
  p1 = p1
  p2 = p2
  Quit = Quit
  Hovers = {h1, h2, h3}
  Plugins = {p1, p2}
  Target <- TwoPlugins
  Hung = {p1}
PROPERTY HoverEnds
CHECK_DEADLOCK FALSE
