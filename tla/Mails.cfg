\* Four mails, and two deaths of the process.
CONSTANTS
  Nil = Nil
  Mails = {m1, m2, m3, m4}
  MaxCrashes = 2
SPECIFICATION MailFairSpec
INVARIANTS MailTypeOK MailedOnce
PROPERTIES MailsMoveUp EveryMailTried
CHECK_DEADLOCK FALSE
