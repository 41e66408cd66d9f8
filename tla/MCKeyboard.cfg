SPECIFICATION Spec
CONSTANTS
  LineSize = 3
  BuffSize = 3
  MaxUnder = 1
  Mods = {"ctrl", "alt", "capslock"}
  Keys = {"l", "enter", "backspace", "delete"}
INVARIANT LineTerminated
PROPERTIES LineIsWhatWasTyped EnterEndsLine
