\* is a mail the rules leave for review ever shown in the archive?
SPECIFICATION RulesSpec
CONSTANTS
  RuledMails <- IncomingMails
  Came <- InMarch
  Corrections <- CorrectionsForTlc
  Answers <- AnswersForTlc
INVARIANT UncertainIsNotArchived
