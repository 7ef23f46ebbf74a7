CONSTANTS
  Routes <- MCRoutes
  Requests <- MCRequests
  Dispatchers <- MCDispatchers
  AppStatuses <- MCAppStatuses
SPECIFICATION Spec
INVARIANTS SecuredFirst TruthfulStatus AnswerFits
