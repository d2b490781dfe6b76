SPECIFICATION StartSpec
CONSTANTS
    Letters <- SomeLetters
    Words <- SomeWords
    MaxWords = 4
    ADDRESS_MAX_LENGTH = 4
    USERNAME_MAX_LENGTH = 4
    PORT_MAX_LENGTH = 6
    DefaultPort <- Port2315
    Login <- SomeLogin
    Answers <- SomeAnswers
INVARIANTS OptionsAsGetopt SettingsAsGiven
CHECK_DEADLOCK FALSE
