SPECIFICATION Spec
CONSTANTS
  MaxLogins = 2
  MaxGen = 1
  MaxOpen = 2
  MaxEvents = 1
  Strict = TRUE
  None = None
  Contexts = {web, upload}
  WebView = web
PROPERTY FreshLoginSurvives
CHECK_DEADLOCK FALSE
