\* All four forms share the keyboard.
SPECIFICATION KeyboardSpec
INVARIANT CursorOnKey
INVARIANT EveryKeyNear
INVARIANT SwitchesAlphabet
