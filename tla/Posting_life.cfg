SPECIFICATION Spec
CONSTANTS
  Urls = {old_link, new_link}
  Bodies = {text}
  NoBody = NoBody
  NoUrl = NoUrl
  Reverify = 1
  Suppress = 2
PROPERTIES
  BodyNeverErased
  KeepsBeingChecked
  GoneSettles
  DetailsArrive
