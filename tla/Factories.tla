----------------------------- MODULE Factories -----------------------------
(***************************************************************************)
(* The factories of the operators in the JavaScript package                *)
(* (generated/ops.ts): for each, the wrapper it puts around the C++        *)
(* operator and the settings it takes, in the order of its positional      *)
(* form, with the kind that it checks and the default.  A setting has one  *)
(* name here; a description writes it in snake case, an options object in  *)
(* camel case.                                                             *)
(*                                                                         *)
(* What a factory does with its settings is in OperatorSettings.           *)
(***************************************************************************)
EXTENDS WindowFactories

AD == Takes(<<>>)
ADOSC == Takes(<<Int("fast", "3"), Int("slow", "10")>>)
ADX == Takes(<<Int("windowSize", "14")>>)
ADXR == Takes(<<Int("windowSize", "14")>>)
ATR == Takes(<<Int("windowSize", "14")>>)
AbdiRanaldoSpread == Takes(<<Int("windowSize", "20"), Text("startPolicy", "strict")>>)
Abs == Takes(<<>>)
Acos == Takes(<<>>)
Add == Takes(<<>>)
AmihudIlliquidity == Takes(<<Int("windowSize", "20"), Text("startPolicy", "strict")>>)
And == Takes(<<>>)
Asin == Takes(<<>>)
Atan == Takes(<<>>)
Atan2 == Takes(<<>>)
BOP == Takes(<<>>)
BacktestCarry == Takes(<<Number("multiplier", "1.0")>>)
BacktestL1Orders ==
  Takes(<<Number("makerFee", "0.0"), Number("takerFee", "0.0"), Text("fill", "breach"),
    Number("participationRatio", "1.0"), Number("tickSize", "0.0"),
    Number("minPosition", "-Infinity"), Number("maxPosition", "Infinity"),
    Number("multiplier", "1.0"), Number("makerFeePerContract", "0.0"),
    Number("takerFeePerContract", "0.0"), Number("slippage", "0.0"),
    Text("slippageUnit", "fraction")>>)
BacktestL1Target ==
  Takes(<<Number("takerFee", "0.0"), Number("tickSize", "0.0"), Number("minPosition", "-Infinity"),
    Number("maxPosition", "Infinity"), Number("multiplier", "1.0"), Number("feePerContract", "0.0"),
    Number("slippage", "0.0"), Text("slippageUnit", "fraction"), Number("stopLoss", "0.0"),
    Number("takeProfit", "0.0"), Number("trailingStop", "0.0"), Text("size", "units"),
    Number("initialCapital", "0.0"), Number("rebalanceBand", "0.0")>>)
BacktestL1TradesOrders ==
  Takes(<<Number("makerFee", "0.0"), Number("takerFee", "0.0"), Text("fill", "touch"),
    Number("participationRatio", "1.0"), Number("tickSize", "0.0"),
    Number("minPosition", "-Infinity"), Number("maxPosition", "Infinity"),
    Number("multiplier", "1.0"), Number("makerFeePerContract", "0.0"),
    Number("takerFeePerContract", "0.0"), Number("slippage", "0.0"),
    Text("slippageUnit", "fraction")>>)
BacktestOHLCOrders ==
  Takes(<<Number("makerFee", "0.0"), Number("takerFee", "0.0"), Text("fill", "touch"),
    Number("participationRatio", "1.0"), Number("tickSize", "0.0"),
    Number("minPosition", "-Infinity"), Number("maxPosition", "Infinity"),
    Number("multiplier", "1.0"), Number("makerFeePerContract", "0.0"),
    Number("takerFeePerContract", "0.0"), Number("slippage", "0.0"),
    Text("slippageUnit", "fraction")>>)
BacktestOHLCTarget ==
  Takes(<<Number("takerFee", "0.0"), Number("tickSize", "0.0"), Number("minPosition", "-Infinity"),
    Number("maxPosition", "Infinity"), Number("multiplier", "1.0"), Number("feePerContract", "0.0"),
    Number("slippage", "0.0"), Text("slippageUnit", "fraction"), Text("fillAt", "open"),
    Int("delay", "1"), Number("stopLoss", "0.0"), Number("takeProfit", "0.0"),
    Number("trailingStop", "0.0"), Text("size", "units"), Number("initialCapital", "0.0"),
    Number("rebalanceBand", "0.0")>>)
BacktestOHLCVTarget ==
  Takes(<<Number("maxParticipation", "1.0"), Number("takerFee", "0.0"), Number("tickSize", "0.0"),
    Number("minPosition", "-Infinity"), Number("maxPosition", "Infinity"),
    Number("multiplier", "1.0"), Number("feePerContract", "0.0"), Number("slippage", "0.0"),
    Text("slippageUnit", "fraction"), Text("fillAt", "open"), Int("delay", "1"),
    Number("stopLoss", "0.0"), Number("takeProfit", "0.0"), Number("trailingStop", "0.0"),
    Text("size", "units"), Number("initialCapital", "0.0"), Number("rebalanceBand", "0.0")>>)
BacktestPortfolioOHLCTarget ==
  Row(<<Vector("fee", "[0.0]"), Vector("slippage", "[0.0]"), Text("slippageUnit", "fraction"),
    Vector("tickSize", "[0.0]"), Vector("multiplier", "[1.0]"), Vector("feePerContract", "[0.0]"),
    Text("size", "weight"), Number("initialCapital", "1.0"), Number("rebalanceBand", "0.0"),
    Text("rebalance", "drifted"), Number("maxGross", "Infinity"), Number("maxNet", "Infinity"),
    Text("fillAt", "open"), Int("delay", "1")>>)
BacktestPortfolioTarget ==
  Row(<<Vector("fee", "[0.0]"), Vector("slippage", "[0.0]"), Text("slippageUnit", "fraction"),
    Vector("tickSize", "[0.0]"), Vector("multiplier", "[1.0]"), Vector("feePerContract", "[0.0]"),
    Text("size", "weight"), Number("initialCapital", "1.0"), Number("rebalanceBand", "0.0"),
    Text("rebalance", "drifted"), Number("maxGross", "Infinity"), Number("maxNet", "Infinity")>>)
BacktestPriceTarget ==
  Takes(<<Number("spread", "0.0"), Number("fee", "0.0"), Number("minPosition", "-Infinity"),
    Number("maxPosition", "Infinity"), Number("multiplier", "1.0"), Number("feePerContract", "0.0"),
    Number("slippage", "0.0"), Text("slippageUnit", "fraction"), Number("tickSize", "0.0"),
    Number("stopLoss", "0.0"), Number("takeProfit", "0.0"), Number("trailingStop", "0.0"),
    Text("size", "units"), Number("initialCapital", "0.0"), Number("rebalanceBand", "0.0")>>)
BacktestReport == Takes(<<Number("periodsPerYear", "1.0")>>)
BacktestStats == Takes(<<Number("periodsPerYear", "1.0")>>)
BacktestTradesOrders ==
  Takes(<<Number("makerFee", "0.0"), Number("takerFee", "0.0"), Text("fill", "touch"),
    Number("participationRatio", "1.0"), Number("tickSize", "0.0"),
    Number("minPosition", "-Infinity"), Number("maxPosition", "Infinity"),
    Number("multiplier", "1.0"), Number("makerFeePerContract", "0.0"),
    Number("takerFeePerContract", "0.0"), Number("slippage", "0.0"),
    Text("slippageUnit", "fraction")>>)
BacktestTradesTarget ==
  Takes(<<Number("takerFee", "0.0"), Number("tickSize", "0.0"), Number("minPosition", "-Infinity"),
    Number("maxPosition", "Infinity"), Number("multiplier", "1.0"), Number("feePerContract", "0.0"),
    Number("slippage", "0.0"), Text("slippageUnit", "fraction"), Number("stopLoss", "0.0"),
    Number("takeProfit", "0.0"), Number("trailingStop", "0.0"), Text("size", "units"),
    Number("initialCapital", "0.0"), Number("rebalanceBand", "0.0"),
    Number("maxParticipation", "Infinity")>>)
BandSignal == Takes(<<Number("entry", "2.0"), Number("exit", "0.0"), Number("stop", "Infinity")>>)
BayesianChangepoint ==
  Takes(<<Number("expectedRun", "250.0"), Int("maxRun", "1000"), Number("priorVar", "1.0")>>)
BayesianRegression ==
  Takes(<<Maybe("com"), Maybe("span"), Maybe("halflife"), Maybe("alpha"),
    Number("priorPrecision", "1.0"), Number("priorSigma", "1.0")>>)
BollingerBands == Takes(<<Int("windowSize", "20"), Number("numStd", "2.0"), Text("startPolicy", "strict")>>)
BulkVolumeClassifier == Takes(<<Int("windowSize", "20"), Text("startPolicy", "strict")>>)
Butter == Takes(<<Int("order", "2"), Number("cutoffFreq", "0.1"), Text("startPolicy", "steady")>>)
ButterBandpass ==
  Takes(<<Int("order", "2"), Number("lowCutoff", "0.05"), Number("highCutoff", "0.2"),
    Text("startPolicy", "steady")>>)
ButterBandstop ==
  Takes(<<Int("order", "2"), Number("lowCutoff", "0.05"), Number("highCutoff", "0.2"),
    Text("startPolicy", "steady")>>)
ButterHighpass == Takes(<<Int("order", "2"), Number("cutoffFreq", "0.1"), Text("startPolicy", "steady")>>)
CCI == Takes(<<Int("windowSize", "14")>>)
Cart2Polar == Takes(<<>>)
Ceil == Takes(<<>>)
Clip == Takes(<<Maybe("lower"), Maybe("upper")>>)
ContOFI == Takes(<<>>)
CorwinSchultzSpread ==
  Takes(<<Int("windowSize", "20"), Bool("adjustOvernight", "true"), Text("startPolicy", "strict")>>)
Cos == Takes(<<>>)
CrossDemean == Row(<<>>)
CrossNormalize == Row(<<Number("gross", "1.0"), Maybe("net")>>)
CrossRank == Row(<<Text("scale", "signed")>>)
CrossStd == Row(<<Int("ddof", "1")>>)
CrossTopBottom == Row(<<Int("count", "1")>>)
CrossWinsorize == Row(<<Number("lower", "0.05"), Number("upper", "0.95")>>)
CrossZscore == Row(<<>>)
Cube == Takes(<<>>)
CumMax == Takes(<<>>)
CumMin == Takes(<<>>)
CumProd == Takes(<<>>)
CumSum == Takes(<<>>)
CusumFilter == Takes(<<Needed(Number("threshold", "none")), Number("drift", "0.0")>>)
CycleAmplitude == Takes(<<>>)
CycleFrequency == Takes(<<>>)
CyclePhase == Takes(<<>>)
CycleSine == Takes(<<>>)
DEMA == Takes(<<Maybe("com"), Maybe("span"), Maybe("halflife"), Maybe("alpha")>>)
DX == Takes(<<Int("windowSize", "14")>>)
Decycler == Takes(<<Maybe("period"), Maybe("cutoff"), Text("startPolicy", "steady")>>)
Detrend == Takes(<<Int("windowSize", "20"), Text("startPolicy", "strict")>>)
Diff == Takes(<<Int("windowSize", "1"), Text("startPolicy", "strict")>>)
Diff2 == Takes(<<Text("startPolicy", "strict")>>)
Div == Takes(<<>>)
DominantCycle == Takes(<<>>)
DonchianChannels == Takes(<<Int("windowSize", "20")>>)
Drawdown == Takes(<<>>)
EdgeSpread == Takes(<<Int("windowSize", "20"), Bool("sign", "false"), Text("startPolicy", "strict")>>)
EffectiveSpread == Takes(<<>>)
Elu == Takes(<<>>)
Equal == Takes(<<>>)
Erf == Takes(<<>>)
Erfc == Takes(<<>>)
Exp == Takes(<<>>)
Ffill == Takes(<<>>)
FillNa == Takes(<<Number("fill", "0.0")>>)
First == Takes(<<>>)
Floor == Takes(<<>>)
FracDiff ==
  Takes(<<Number("d", "0.4"), Int("windowSize", "100"), Number("threshold", "1e-05"),
    Text("startPolicy", "strict")>>)
GreaterEqual == Takes(<<>>)
GreaterThan == Takes(<<>>)
Hampel ==
  Takes(<<Int("windowSize", "20"), Number("nSigma", "3.0"), Text("output", "cleaned"),
    Text("startPolicy", "strict")>>)
HawkesIntensity == Takes(<<Number("decay", "0.9"), Number("alpha", "1.0"), Number("mu", "0.0")>>)
HilbertPhasor == Takes(<<>>)
Hold == Takes(<<Needed(Int("n", "none")), Number("release", "0.0"), Int("cooldown", "0")>>)
HullMA == Takes(<<Int("windowSize", "20")>>)
Hypot == Takes(<<>>)
Identity == Takes(<<>>)
ImpulseClip ==
  Takes(<<Int("windowSize", "20"), Number("nSigma", "4.0"), Text("output", "cleaned"),
    Text("startPolicy", "strict")>>)
InstantaneousTrendline == Takes(<<>>)
IsFinite == Takes(<<>>)
IsNan == Takes(<<>>)
KAMA == Takes(<<Int("windowSize", "10"), Int("fast", "2"), Int("slow", "30")>>)
KalmanFilter ==
  Takes(<<Number("processVar", "0.01"), Number("observationVar", "1.0"),
    Number("initialState", "0.0"), Number("initialVariance", "1.0"), Number("huber", "Infinity")>>)
KalmanRegression ==
  Takes(<<Number("delta", "1e-06"), Number("obsVar", "0.001"), Number("priorVar", "1.0"),
    Number("huber", "Infinity")>>)
KeltnerChannels == Takes(<<Int("windowSize", "20"), Number("numAtr", "2.0")>>)
Lag == Takes(<<Int("windowSize", "1"), Text("startPolicy", "strict")>>)
Last == Takes(<<>>)
LeeReadySign == Takes(<<>>)
LessEqual == Takes(<<>>)
LessThan == Takes(<<>>)
Linear == Takes(<<Number("scale", "1.0"), Number("shift", "0.0")>>)
Linear2 == Takes(<<Number("a", "1.0"), Number("b", "1.0"), Number("c", "0.0")>>)
LiquidationDistance == Takes(<<Needed(Number("leverage", "none")), Number("maintenance", "0.005")>>)
Log == Takes(<<>>)
LogReturn == Takes(<<Int("windowSize", "1")>>)
MACD == Takes(<<Int("fast", "12"), Int("slow", "26"), Int("signal", "9")>>)
MAMA == Takes(<<Number("fastLimit", "0.5"), Number("slowLimit", "0.05")>>)
MFI == Takes(<<Int("windowSize", "14")>>)
MaxDrawdown == Takes(<<>>)
MicroPrice == Takes(<<>>)
MinusDI == Takes(<<Int("windowSize", "14")>>)
MinusDM == Takes(<<Int("windowSize", "14")>>)
Momentum == Takes(<<Int("windowSize", "10"), Text("startPolicy", "strict")>>)
MovingAverage == Takes(<<Vector("taps", "[0.25, 0.5, 0.25]")>>)
Mul == Takes(<<>>)
NATR == Takes(<<Int("windowSize", "14")>>)
NegPart == Takes(<<>>)
Not == Takes(<<>>)
NotEqual == Takes(<<>>)
OBV == Takes(<<>>)
OFI == Takes(<<>>)
Or == Takes(<<>>)
PlusDI == Takes(<<Int("windowSize", "14")>>)
PlusDM == Takes(<<Int("windowSize", "14")>>)
Polar2Cart == Takes(<<>>)
PortfolioReport == Reducer(<<>>)
PosPart == Takes(<<>>)
Power == Takes(<<Number("p", "2.0")>>)
Propagator == Takes(<<Int("windowSize", "20"), Number("g0", "1.0"), Number("gamma", "0.5")>>)
QueueImbalance == Takes(<<>>)
ROC == Takes(<<Int("windowSize", "10")>>)
ROCP == Takes(<<Int("windowSize", "10")>>)
ROCR == Takes(<<Int("windowSize", "10")>>)
RealizedSpread == Takes(<<Int("lag", "1")>>)
Relu == Takes(<<>>)
Return == Takes(<<Int("windowSize", "1")>>)
RollSpread == Takes(<<Int("windowSize", "20"), Text("startPolicy", "strict")>>)
RoofingFilter ==
  Takes(<<Maybe("hpPeriod"), Maybe("lpPeriod"), Maybe("hpCutoff"), Maybe("lpCutoff"),
    Text("startPolicy", "steady")>>)
Round == Takes(<<>>)
SchmittTrigger ==
  Takes(<<Needed(Number("lower", "none")), Needed(Number("upper", "none")),
    Number("initial", "0.0")>>)
Segment == Takes(<<Needed(Op("op"))>>)
Selu == Takes(<<>>)
Sigmoid == Takes(<<>>)
Sign == Takes(<<>>)
SignedVolume == Takes(<<>>)
Sin == Takes(<<>>)
Softsign == Takes(<<>>)
Sqrt == Takes(<<>>)
Square == Takes(<<>>)
Stoch == Takes(<<Int("fastkPeriod", "14"), Int("smoothK", "3"), Int("d", "3")>>)
StochRSI == Takes(<<Int("rsiPeriod", "14"), Int("stochPeriod", "14"), Int("smoothK", "1"), Int("d", "3")>>)
Sub == Takes(<<>>)
SuperSmoother == Takes(<<Maybe("period"), Maybe("cutoff"), Text("startPolicy", "steady")>>)
TEMA == Takes(<<Maybe("com"), Maybe("span"), Maybe("halflife"), Maybe("alpha")>>)
TRIMA == Takes(<<Int("windowSize", "20")>>)
TRIX == Takes(<<Int("span", "14")>>)
Tanh == Takes(<<>>)
TickRuleSign == Takes(<<>>)
TrendMode == Takes(<<>>)
TripleBarrier ==
  Takes(<<Int("horizon", "20"), Number("upper", "0.0"), Number("lower", "0.0"),
    Text("barrierUnit", "fraction"), Number("volSpan", "100.0")>>)
TripleBarrierOHLC ==
  Takes(<<Int("horizon", "20"), Number("upper", "0.0"), Number("lower", "0.0"),
    Text("barrierUnit", "fraction"), Number("volSpan", "100.0")>>)
TrueRange == Takes(<<>>)
UltimateOscillator == Takes(<<Int("period1", "7"), Int("period2", "14"), Int("period3", "28")>>)
VPIN == Takes(<<Number("bucketVolume", "1.0"), Int("nBuckets", "50")>>)
WMA == Takes(<<Int("windowSize", "20"), Text("startPolicy", "strict")>>)
Where == Takes(<<>>)
WilliamsR == Takes(<<Int("windowSize", "14")>>)
-----------------------------------------------------------------------------

\* The namespace: every factory by its name.
Factory ==
  [AD |-> AD, ADOSC |-> ADOSC, ADX |-> ADX, ADXR |-> ADXR, ATR |-> ATR, AbdiRanaldoSpread |->
   AbdiRanaldoSpread, Abs |-> Abs, Acos |-> Acos, Add |-> Add, AmihudIlliquidity |->
   AmihudIlliquidity, And |-> And, Asin |-> Asin, Atan |-> Atan, Atan2 |-> Atan2, BOP |-> BOP,
   BacktestCarry |-> BacktestCarry, BacktestL1Orders |-> BacktestL1Orders, BacktestL1Target |->
   BacktestL1Target, BacktestL1TradesOrders |-> BacktestL1TradesOrders, BacktestOHLCOrders |->
   BacktestOHLCOrders, BacktestOHLCTarget |-> BacktestOHLCTarget, BacktestOHLCVTarget |->
   BacktestOHLCVTarget, BacktestPortfolioOHLCTarget |-> BacktestPortfolioOHLCTarget,
   BacktestPortfolioTarget |-> BacktestPortfolioTarget, BacktestPriceTarget |-> BacktestPriceTarget,
   BacktestReport |-> BacktestReport, BacktestStats |-> BacktestStats, BacktestTradesOrders |->
   BacktestTradesOrders, BacktestTradesTarget |-> BacktestTradesTarget, BandSignal |-> BandSignal,
   BayesianChangepoint |-> BayesianChangepoint, BayesianRegression |-> BayesianRegression,
   BollingerBands |-> BollingerBands, BulkVolumeClassifier |-> BulkVolumeClassifier, Butter |->
   Butter, ButterBandpass |-> ButterBandpass, ButterBandstop |-> ButterBandstop, ButterHighpass |->
   ButterHighpass, CCI |-> CCI, Cart2Polar |-> Cart2Polar, Ceil |-> Ceil, Clip |-> Clip, ContOFI |->
   ContOFI, CorwinSchultzSpread |-> CorwinSchultzSpread, Cos |-> Cos, CrossDemean |-> CrossDemean,
   CrossNormalize |-> CrossNormalize, CrossRank |-> CrossRank, CrossStd |-> CrossStd, CrossTopBottom
   |-> CrossTopBottom, CrossWinsorize |-> CrossWinsorize, CrossZscore |-> CrossZscore, Cube |->
   Cube, CumMax |-> CumMax, CumMin |-> CumMin, CumProd |-> CumProd, CumSum |-> CumSum, CusumFilter
   |-> CusumFilter, CycleAmplitude |-> CycleAmplitude, CycleFrequency |-> CycleFrequency, CyclePhase
   |-> CyclePhase, CycleSine |-> CycleSine, DEMA |-> DEMA, DX |-> DX, Decycler |-> Decycler, Detrend
   |-> Detrend, Diff |-> Diff, Diff2 |-> Diff2, Div |-> Div, DominantCycle |-> DominantCycle,
   DonchianChannels |-> DonchianChannels, Drawdown |-> Drawdown, EdgeSpread |-> EdgeSpread,
   EffectiveSpread |-> EffectiveSpread, Elu |-> Elu, Equal |-> Equal, Erf |-> Erf, Erfc |-> Erfc,
   EwAlpha |-> EwAlpha, EwBeta |-> EwBeta, EwCorr |-> EwCorr, EwCov |-> EwCov, EwGarmanKlassVar |->
   EwGarmanKlassVar, EwGarmanKlassVol |-> EwGarmanKlassVol, EwKurt |-> EwKurt, EwKyleLambda |->
   EwKyleLambda, EwMean |-> EwMean, EwMultiRegression |-> EwMultiRegression, EwParkinsonVar |->
   EwParkinsonVar, EwParkinsonVol |-> EwParkinsonVol, EwResidualStd |-> EwResidualStd, EwRms |->
   EwRms, EwRogersSatchellVar |-> EwRogersSatchellVar, EwRogersSatchellVol |-> EwRogersSatchellVol,
   EwSkew |-> EwSkew, EwSpread |-> EwSpread, EwStd |-> EwStd, EwVar |-> EwVar, EwYangZhangVar |->
   EwYangZhangVar, EwYangZhangVol |-> EwYangZhangVol, EwZscore |-> EwZscore, Exp |-> Exp,
   ExpandingKurt |-> ExpandingKurt, ExpandingMax |-> ExpandingMax, ExpandingMean |-> ExpandingMean,
   ExpandingMin |-> ExpandingMin, ExpandingMultiRegression |-> ExpandingMultiRegression,
   ExpandingProd |-> ExpandingProd, ExpandingSkew |-> ExpandingSkew, ExpandingSlope |->
   ExpandingSlope, ExpandingStd |-> ExpandingStd, ExpandingSum |-> ExpandingSum, ExpandingVar |->
   ExpandingVar, Ffill |-> Ffill, FillNa |-> FillNa, First |-> First, Floor |-> Floor, FracDiff |->
   FracDiff, GreaterEqual |-> GreaterEqual, GreaterThan |-> GreaterThan, Hampel |-> Hampel,
   HawkesIntensity |-> HawkesIntensity, HilbertPhasor |-> HilbertPhasor, Hold |-> Hold, HullMA |->
   HullMA, Hypot |-> Hypot, Identity |-> Identity, ImpulseClip |-> ImpulseClip,
   InstantaneousTrendline |-> InstantaneousTrendline, IsFinite |-> IsFinite, IsNan |-> IsNan, KAMA
   |-> KAMA, KalmanFilter |-> KalmanFilter, KalmanRegression |-> KalmanRegression, KeltnerChannels
   |-> KeltnerChannels, Lag |-> Lag, Last |-> Last, LeeReadySign |-> LeeReadySign, LessEqual |->
   LessEqual, LessThan |-> LessThan, Linear |-> Linear, Linear2 |-> Linear2, LiquidationDistance |->
   LiquidationDistance, Log |-> Log, LogReturn |-> LogReturn, MACD |-> MACD, MAMA |-> MAMA, MFI |->
   MFI, MaxDrawdown |-> MaxDrawdown, MicroPrice |-> MicroPrice, MinusDI |-> MinusDI, MinusDM |->
   MinusDM, Momentum |-> Momentum, MovingAverage |-> MovingAverage, Mul |-> Mul, NATR |-> NATR,
   NegPart |-> NegPart, Not |-> Not, NotEqual |-> NotEqual, OBV |-> OBV, OFI |-> OFI, Or |-> Or,
   PlusDI |-> PlusDI, PlusDM |-> PlusDM, Polar2Cart |-> Polar2Cart, PortfolioReport |->
   PortfolioReport, PosPart |-> PosPart, Power |-> Power, Propagator |-> Propagator, QueueImbalance
   |-> QueueImbalance, ROC |-> ROC, ROCP |-> ROCP, ROCR |-> ROCR, RealizedSpread |-> RealizedSpread,
   Relu |-> Relu, Return |-> Return, RollSpread |-> RollSpread, RollingADF |-> RollingADF,
   RollingAlpha |-> RollingAlpha, RollingArgmax |-> RollingArgmax, RollingArgmin |-> RollingArgmin,
   RollingBeta |-> RollingBeta, RollingBipowerVar |-> RollingBipowerVar, RollingCVaR |->
   RollingCVaR, RollingCalmar |-> RollingCalmar, RollingCorr |-> RollingCorr, RollingCov |->
   RollingCov, RollingDownsideDeviation |-> RollingDownsideDeviation, RollingGarmanKlassVar |->
   RollingGarmanKlassVar, RollingGarmanKlassVol |-> RollingGarmanKlassVol, RollingHMM |->
   RollingHMM, RollingHitRate |-> RollingHitRate, RollingHurst |-> RollingHurst, RollingInfoRatio
   |-> RollingInfoRatio, RollingIqr |-> RollingIqr, RollingJumpShare |-> RollingJumpShare,
   RollingKurt |-> RollingKurt, RollingKyleLambda |-> RollingKyleLambda, RollingLinearRegression |->
   RollingLinearRegression, RollingMad |-> RollingMad, RollingMax |-> RollingMax, RollingMaxDrawdown
   |-> RollingMaxDrawdown, RollingMean |-> RollingMean, RollingMedian |-> RollingMedian,
   RollingMedianAD |-> RollingMedianAD, RollingMin |-> RollingMin, RollingMinMax |-> RollingMinMax,
   RollingMultiRegression |-> RollingMultiRegression, RollingOU |-> RollingOU, RollingOmega |->
   RollingOmega, RollingOrderImbalance |-> RollingOrderImbalance, RollingParkinsonVar |->
   RollingParkinsonVar, RollingParkinsonVol |-> RollingParkinsonVol, RollingPercentile |->
   RollingPercentile, RollingPermutationEntropy |-> RollingPermutationEntropy, RollingPoly1 |->
   RollingPoly1, RollingPoly2 |-> RollingPoly2, RollingQuantile |-> RollingQuantile, RollingRSI |->
   RollingRSI, RollingRange |-> RollingRange, RollingRank |-> RollingRank, RollingRealizedKurt |->
   RollingRealizedKurt, RollingRealizedSkew |-> RollingRealizedSkew, RollingResidualStd |->
   RollingResidualStd, RollingRms |-> RollingRms, RollingRogersSatchellVar |->
   RollingRogersSatchellVar, RollingRogersSatchellVol |-> RollingRogersSatchellVol,
   RollingSeasonalMean |-> RollingSeasonalMean, RollingSeasonalStd |-> RollingSeasonalStd,
   RollingSeasonalZscore |-> RollingSeasonalZscore, RollingSharpe |-> RollingSharpe,
   RollingSigmaClip |-> RollingSigmaClip, RollingSkew |-> RollingSkew, RollingSortino |->
   RollingSortino, RollingSpread |-> RollingSpread, RollingStd |-> RollingStd, RollingSum |->
   RollingSum, RollingTLSBeta |-> RollingTLSBeta, RollingTSF |-> RollingTSF, RollingUpsideDeviation
   |-> RollingUpsideDeviation, RollingVWAP |-> RollingVWAP, RollingVar |-> RollingVar,
   RollingVarianceRatio |-> RollingVarianceRatio, RollingYangZhangVar |-> RollingYangZhangVar,
   RollingYangZhangVol |-> RollingYangZhangVol, RollingZscore |-> RollingZscore, RoofingFilter |->
   RoofingFilter, Round |-> Round, SchmittTrigger |-> SchmittTrigger, Segment |-> Segment, Selu |->
   Selu, Sigmoid |-> Sigmoid, Sign |-> Sign, SignedVolume |-> SignedVolume, Sin |-> Sin, Softsign
   |-> Softsign, Sqrt |-> Sqrt, Square |-> Square, Stoch |-> Stoch, StochRSI |-> StochRSI, Sub |->
   Sub, SuperSmoother |-> SuperSmoother, TEMA |-> TEMA, TRIMA |-> TRIMA, TRIX |-> TRIX, Tanh |->
   Tanh, TickRuleSign |-> TickRuleSign, TrendMode |-> TrendMode, TripleBarrier |-> TripleBarrier,
   TripleBarrierOHLC |-> TripleBarrierOHLC, TrueRange |-> TrueRange, UltimateOscillator |->
   UltimateOscillator, VPIN |-> VPIN, WMA |-> WMA, Where |-> Where, WilliamsR |-> WilliamsR]
=============================================================================
