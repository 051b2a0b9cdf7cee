\* Two Workers over two revisions of a Memory whose file the owner edits.
CONSTANTS
  QualityWorkers = {w1, w2}
  MaxSource = 2
  RewriteLimit = 1
  OwnerEdits = TRUE
SPECIFICATION QualitySpec
INVARIANTS SummaryFits
CHECK_DEADLOCK FALSE
